---- MODULE Spec2Model ----
(***************************************************************************)
(* zenzen: reconciliation of the local and the cloud entry stores          *)
(* (service/sync.go), over the Store capability (service/service.go,       *)
(* storage/sql.go) and the Entry record (core/entry.go).                   *)
(*                                                                         *)
(* A reconciliation pass (performSync) is modelled call by call: every     *)
(* store call (GetAll, SaveEntry) is one step, because these are the       *)
(* points at which the pass can fail and at which it blocks.  Go ranges    *)
(* over a map in an unspecified order, so each loop picks any remaining    *)
(* id.  Every store call may fail; a failed call leaves its store as it    *)
(* was.                                                                    *)
(*                                                                         *)
(* Time is counted in clock ticks.  time.Now() has the resolution of one   *)
(* tick; the TIMESTAMPTZ columns of the entries table hold microseconds,   *)
(* TicksPerMicro ticks each, so a store keeps a timestamp cut down to a    *)
(* whole microsecond.                                                      *)
(*                                                                         *)
(* The specifications share the state: Spec (reconciliation passes on      *)
(* demand), SpecNotes (the Notes service and the Store calls under it),    *)
(* SpecLoop and SpecLoopFair (the background loop of SyncService.run),     *)
(* SpecTrigger, SpecDelete, SpecResume and SpecEdit (passes next to        *)
(* triggers, deletes, crashes and user saves), SpecMain, SpecShutdown and  *)
(* SpecStop (main's wiring and shutdown), SpecEntry (the methods of        *)
(* Entry), SpecApi (api/server.go, api/handlers.go) and SpecTuiEdit and    *)
(* SpecTuiList (tui.go).                                                   *)
(***************************************************************************)
EXTENDS Integers, Sequences, FiniteSets, TLC

\* ------------------------------------------------------------------ bounds
\* clock ticks in one microsecond, the resolution of a TIMESTAMPTZ column
\* (1000 in the program: time.Time counts nanoseconds)
TicksPerMicro == 2
\* LastModifiedTimestamp of the entries the stores start with, in
\* microseconds: 1..MaxTime
MaxTime == 2
\* the wall clock starts at microsecond MaxTime and advances at most MaxTicks
\* ticks
MaxTicks == 2
\* number of passes triggered in one behaviour
MaxPasses == 2
\* number of calls made on Notes and directly on the store in one behaviour
MaxOps == 2
\* number of keys handled by the TUI in one behaviour
MaxKeys == 5
\* the timestamps and durations given to the methods of Entry run over
\* 0..MaxStamp, 0 being the zero time.Time
MaxStamp == 3

\* the join keys of the two replicas
Ids == {"1", "2"}

\* the timestamps a store can hold: whole microseconds
Times == { TicksPerMicro * k : k \in 1..MaxTime }

StartClock == TicksPerMicro * MaxTime
MaxClock == StartClock + MaxTicks

\* -------------------------------------------------------------- core.Entry
\* the fields of an entry other than ID and LastModifiedTimestamp; the two
\* values differ in every field
Contents ==
  { [Title |-> "K8s", Tags |-> <<"learning", "open-source">>,
     StartedAtTimestamp |-> TicksPerMicro, EndedAtTimestamp |-> 0,
     EstimatedDuration |-> 3, Body |-> "The journey has just begun."],
    [Title |-> "System Design", Tags |-> <<"interviews">>,
     StartedAtTimestamp |-> TicksPerMicro * 2,
     EndedAtTimestamp |-> TicksPerMicro * 3,
     EstimatedDuration |-> 4, Body |-> "Books combined with youtube resources."] }

Entry(id, c, t) ==
  [ID |-> id, Title |-> c.Title, Tags |-> c.Tags,
   StartedAtTimestamp |-> c.StartedAtTimestamp,
   EndedAtTimestamp |-> c.EndedAtTimestamp,
   LastModifiedTimestamp |-> t,
   EstimatedDuration |-> c.EstimatedDuration, Body |-> c.Body]

\* a nil map[string]core.Entry (what GetAll returns next to an error)
NilMap == [id \in {} |-> 0]

\* every content a store can hold: each id absent, or present under its own
\* key with any content and any timestamp
StoreStates ==
  UNION { { [id \in S |-> Entry(id, f[id][1], f[id][2])] :
              f \in [S -> Contents \X Times] } : S \in SUBSET Ids }

\* ------------------------------------------------------------------ state
VARIABLES
  local,          \* content of the local store   (s.local)
  cloud,          \* content of the cloud store   (s.cloud)
  now,            \* the wall clock (time.Now())
  lastSync,       \* s.lastSync; 0 is the zero time.Time
  pc,             \* position of performSync
  localEntries,   \* the pass's snapshot of the local store
  cloudEntries,   \* the pass's snapshot of the cloud store
  todoLocal,      \* ids the first loop has still to visit
  todoCloud,      \* ids the second loop has still to visit
  syncedCount,
  conflictCount,
  passes,         \* passes triggered so far
  \* history of the pass in flight (read by the properties only)
  calls,          \* per id, the SaveEntry calls issued: [store, entry, ok]
  fetched,        \* "none", "local", "both": the GetAll calls that succeeded
  local0,         \* the local store when the pass began
  cloud0,         \* the cloud store when the pass began
  lastSync0,      \* lastSync when the pass began
  returnedAt,     \* the clock when performSync returned
  prev,           \* the previous pass: clean (both fetches and every upsert
                  \* succeeded) and writes (its successful upserts)
  \* the Notes service (service/service.go)
  Entries,        \* l.Entries, the in-memory copy
  entriesNil,     \* l.Entries is the nil map (before the first LoadAll)
  op,             \* the last call made on Notes or directly on the store
  ops,            \* calls made so far on Notes and directly on the store
  \* the background loop (SyncService.run)
  runPc,          \* position of the goroutine started by Start
  stopClosed,     \* s.stopChan is closed
  tickPending,    \* a tick waits in ticker.C (a channel of capacity 1)
  inFlight,       \* passes of the loop entered and not yet returned
  stopAt,         \* where the loop was when Stop was called
  stopPasses,     \* passes begun when Stop was called
  ticksTaken,     \* ticks the select of run has received from ticker.C
  \* the process around the services (main, runSyncNow)
  syncNowPc,      \* position of a SyncNow call made beside the loop
  wiring,         \* what main read from the configuration and built from it
  origin,         \* the stores when the first of a row of unfinished passes
                  \* began
  proc,           \* the process: the store handles it has closed, whether it
                  \* has panicked, whether it has exited
  api,            \* the API server, with the last request it served and its
                  \* answer
  tui             \* the Model of the TUI (its entries map is Notes' Entries)

notesVars == <<Entries, entriesNil, op, ops>>
progVars == <<syncNowPc, wiring, origin, proc, api, tui>>
loopVars == <<runPc, stopClosed, tickPending, inFlight, stopAt, stopPasses,
              ticksTaken, progVars>>

vars == <<local, cloud, now, lastSync, pc, localEntries, cloudEntries,
          todoLocal, todoCloud, syncedCount, conflictCount, passes,
          calls, fetched, local0, cloud0, lastSync0, returnedAt, prev,
          notesVars, loopVars>>

NoCalls == [id \in Ids |-> <<>>]

\* all SaveEntry calls of the pass in flight
AllCalls == UNION { { calls[id][i] : i \in 1..Len(calls[id]) } : id \in Ids }
FailedCalls(id) == { i \in 1..Len(calls[id]) : ~calls[id][i].ok }
NoUpsertFailed == \A id \in Ids : FailedCalls(id) = {}

\* ------------------------------------------------------------ Store calls
\* Store.GetAll: a snapshot of the whole collection
GetAll(store) == store

\* a TIMESTAMPTZ value: the instant cut down to a whole microsecond
Timestamptz(t) == t - (t % TicksPerMicro)

\* an entry as the columns of the entries table hold it, and as GetAll scans
\* it back: the three timestamps at the resolution of TIMESTAMPTZ, the
\* other columns as given
Row(entry) ==
  [entry EXCEPT !.StartedAtTimestamp = Timestamptz(@),
                !.EndedAtTimestamp = Timestamptz(@),
                !.LastModifiedTimestamp = Timestamptz(@)]

\* a store that ignores a record whose id it already holds
SaveEntry_InsertOnly(store, entry) ==
  IF entry.ID \in DOMAIN store THEN store
  ELSE [id \in DOMAIN store \cup {entry.ID} |->
          IF id = entry.ID THEN Row(entry) ELSE store[id]]

\* a store that stamps the record with its own clock
SaveEntry_OwnClock(store, entry) ==
  [id \in DOMAIN store \cup {entry.ID} |->
     IF id = entry.ID THEN Row([entry EXCEPT !.LastModifiedTimestamp = now])
     ELSE store[id]]

\* Store.SaveEntry: INSERT ... ON CONFLICT (id) DO UPDATE SET every column
SaveEntry(store, entry) ==
  [id \in DOMAIN store \cup {entry.ID} |->
     IF id = entry.ID THEN Row(entry) ELSE store[id]]

\* ------------------------------------------------------------ performSync
After_OrEqual(t, u) == t >= u

\* time.Time.After
After(t, u) == t > u

NoWrite == [store |-> "none"]

ResolveLocal_NoPush(id, le, ce) ==
  IF id \notin DOMAIN ce THEN NoWrite
  ELSE IF After(le[id].LastModifiedTimestamp, ce[id].LastModifiedTimestamp)
    THEN [store |-> "cloud", entry |-> le[id], count |-> "synced"]
  ELSE IF After(ce[id].LastModifiedTimestamp, le[id].LastModifiedTimestamp)
    THEN [store |-> "local", entry |-> ce[id], count |-> "conflict"]
  ELSE NoWrite

ResolveLocal_OlderWins(id, le, ce) ==
  IF id \notin DOMAIN ce
    THEN [store |-> "cloud", entry |-> le[id], count |-> "synced"]
  ELSE IF After(le[id].LastModifiedTimestamp, ce[id].LastModifiedTimestamp)
    THEN [store |-> "cloud", entry |-> le[id], count |-> "synced"]
  ELSE IF After(ce[id].LastModifiedTimestamp, le[id].LastModifiedTimestamp)
    THEN [store |-> "cloud", entry |-> le[id], count |-> "conflict"]
  ELSE NoWrite

ResolveLocal_Restamp(id, le, ce) ==
  IF id \notin DOMAIN ce
    THEN [store |-> "cloud",
          entry |-> [le[id] EXCEPT !.LastModifiedTimestamp = now],
          count |-> "synced"]
  ELSE IF After(le[id].LastModifiedTimestamp, ce[id].LastModifiedTimestamp)
    THEN [store |-> "cloud",
          entry |-> [le[id] EXCEPT !.LastModifiedTimestamp = now],
          count |-> "synced"]
  ELSE IF After(ce[id].LastModifiedTimestamp, le[id].LastModifiedTimestamp)
    THEN [store |-> "local", entry |-> ce[id], count |-> "conflict"]
  ELSE NoWrite

\* a pass that looks only at the records modified since the last sync
ResolveLocal_SinceLastSync(id, le, ce) ==
  IF ~After(le[id].LastModifiedTimestamp, lastSync) THEN NoWrite
  ELSE IF id \notin DOMAIN ce
    THEN [store |-> "cloud", entry |-> le[id], count |-> "synced"]
  ELSE IF After(le[id].LastModifiedTimestamp, ce[id].LastModifiedTimestamp)
    THEN [store |-> "cloud", entry |-> le[id], count |-> "synced"]
  ELSE IF After(ce[id].LastModifiedTimestamp, le[id].LastModifiedTimestamp)
    THEN [store |-> "local", entry |-> ce[id], count |-> "conflict"]
  ELSE NoWrite

\* the body of the first loop for one id of the local snapshot: which store
\* is written, with which record, and which counter a success advances
ResolveLocal(id, le, ce) ==
  IF id \notin DOMAIN ce
    THEN [store |-> "cloud", entry |-> le[id], count |-> "synced"]
  ELSE IF After(le[id].LastModifiedTimestamp, ce[id].LastModifiedTimestamp)
    THEN [store |-> "cloud", entry |-> le[id], count |-> "synced"]
  ELSE IF After(ce[id].LastModifiedTimestamp, le[id].LastModifiedTimestamp)
    THEN [store |-> "local", entry |-> ce[id], count |-> "conflict"]
  ELSE NoWrite

\* a pass that pulls every id of the cloud snapshot
ResolveCloud_Always(id, le, ce) ==
  [store |-> "local", entry |-> ce[id], count |-> "synced"]

ResolveCloud_NoPull(id, le, ce) == NoWrite

\* the body of the second loop for one id of the cloud snapshot
ResolveCloud(id, le, ce) ==
  IF id \notin DOMAIN le
    THEN [store |-> "local", entry |-> ce[id], count |-> "synced"]
  ELSE NoWrite

AfterGetAll_IgnoreError(ok, next) == next

\* a pass that looks at the stop channel and returns early once it is closed
AfterGetAll_StopAware(ok, next) == IF ok /\ ~stopClosed THEN next ELSE "done"

\* where performSync goes after a GetAll: on, or out through the early return
AfterGetAll(ok, next) == IF ok THEN next ELSE "done"

LastSyncOnComplete_Keep(old, clock) == old

\* s.lastSync = time.Now()
LastSyncOnComplete(old, clock) == clock

\* what the closing log line of a pass reports
Report == [synced |-> syncedCount, conflicts |-> conflictCount]

\* no call made yet
NoOp == [name |-> "none"]

\* main has not run yet
NoWiring == [built |-> FALSE]

\* the process runs, with its store handles open
Running == [closed |-> {}, panicked |-> FALSE, exited |-> FALSE]

\* no API server has been built
NoServer == [built |-> FALSE]

\* StartTUI has not been called
NoModel == [built |-> FALSE]

\* no pass has begun yet
NoOrigin == [local |-> NilMap, cloud |-> NilMap]

Init ==
  /\ local \in StoreStates
  /\ cloud \in StoreStates
  /\ now = StartClock
  /\ lastSync = 0
  /\ pc = "idle"
  /\ localEntries = NilMap
  /\ cloudEntries = NilMap
  /\ todoLocal = {}
  /\ todoCloud = {}
  /\ syncedCount = 0
  /\ conflictCount = 0
  /\ passes = 0
  /\ calls = NoCalls
  /\ fetched = "none"
  /\ local0 = local
  /\ cloud0 = cloud
  /\ lastSync0 = 0
  /\ returnedAt = 0
  /\ prev = [clean |-> FALSE, writes |-> 0]
  /\ Entries = NilMap
  /\ entriesNil = TRUE
  /\ op = NoOp
  /\ ops = 0
  /\ runPc = "notStarted"
  /\ stopClosed = FALSE
  /\ tickPending = FALSE
  /\ inFlight = 0
  /\ stopAt = "none"
  /\ stopPasses = 0
  /\ ticksTaken = 0
  /\ syncNowPc = "none"
  /\ wiring = NoWiring
  /\ origin = NoOrigin
  /\ proc = Running
  /\ api = NoServer
  /\ tui = NoModel

\* time passes
Tick ==
  /\ now < MaxClock
  /\ now' = now + 1
  /\ UNCHANGED <<local, cloud, lastSync, pc, localEntries, cloudEntries,
                 todoLocal, todoCloud, syncedCount, conflictCount, passes,
                 calls, fetched, local0, cloud0, lastSync0, returnedAt,
                 prev>>
  /\ UNCHANGED <<notesVars, loopVars>>

\* SyncNow: performSync is entered
SyncNow ==
  /\ pc \in {"idle", "done"}
  /\ passes < MaxPasses
  /\ pc' = "getLocal"
  /\ passes' = passes + 1
  /\ localEntries' = NilMap
  /\ cloudEntries' = NilMap
  /\ todoLocal' = {}
  /\ todoCloud' = {}
  /\ syncedCount' = 0
  /\ conflictCount' = 0
  /\ calls' = NoCalls
  /\ fetched' = "none"
  /\ local0' = local
  /\ cloud0' = cloud
  /\ lastSync0' = lastSync
  /\ prev' = [clean |-> (pc = "done" /\ fetched = "both" /\ NoUpsertFailed),
               writes |-> syncedCount + conflictCount]
  /\ UNCHANGED <<local, cloud, now, lastSync, returnedAt>>
  /\ UNCHANGED <<notesVars, loopVars>>

\* localEntries, err := s.local.GetAll()
GetAllLocal ==
  /\ pc = "getLocal"
  /\ \E ok \in BOOLEAN :
       /\ localEntries' = IF ok THEN GetAll(local) ELSE NilMap
       /\ fetched' = IF ok THEN "local" ELSE fetched
       /\ pc' = AfterGetAll(ok, "getCloud")
       /\ returnedAt' = IF pc' = "done" THEN now ELSE returnedAt
  /\ UNCHANGED <<local, cloud, now, lastSync, cloudEntries, todoLocal,
                 todoCloud, syncedCount, conflictCount, passes, calls,
                 local0, cloud0, lastSync0, prev>>
  /\ UNCHANGED <<notesVars, loopVars>>

\* cloudEntries, err := s.cloud.GetAll()
GetAllCloud ==
  /\ pc = "getCloud"
  /\ \E ok \in BOOLEAN :
       /\ cloudEntries' = IF ok THEN GetAll(cloud) ELSE NilMap
       /\ fetched' = IF ok THEN "both" ELSE fetched
       /\ pc' = AfterGetAll(ok, "syncLocal")
       /\ returnedAt' = IF pc' = "done" THEN now ELSE returnedAt
       /\ todoLocal' = IF pc' = "done" THEN {} ELSE DOMAIN localEntries
  /\ UNCHANGED <<local, cloud, now, lastSync, localEntries, todoCloud,
                 syncedCount, conflictCount, passes, calls, local0, cloud0,
                 lastSync0, prev>>
  /\ UNCHANGED <<notesVars, loopVars>>

\* one SaveEntry call of the pass, as decided by r, with outcome ok
Upsert(id, r, ok) ==
  IF r.store = "none"
  THEN UNCHANGED <<local, cloud, syncedCount, conflictCount, calls>>
  ELSE
    /\ calls' = [calls EXCEPT ![id] =
                   Append(@, [store |-> r.store, entry |-> r.entry, ok |-> ok])]
    /\ local' = IF ok /\ r.store = "local" THEN SaveEntry(local, r.entry)
                ELSE local
    /\ cloud' = IF ok /\ r.store = "cloud" THEN SaveEntry(cloud, r.entry)
                ELSE cloud
    /\ syncedCount' = IF ok /\ r.count = "synced" THEN syncedCount + 1
                      ELSE syncedCount
    /\ conflictCount' = IF ok /\ r.count = "conflict" THEN conflictCount + 1
                        ELSE conflictCount

\* one iteration of: for id, localEntry := range localEntries
SyncLocalToCloud ==
  /\ pc = "syncLocal"
  /\ todoLocal # {}
  /\ \E id \in todoLocal, ok \in BOOLEAN :
       /\ Upsert(id, ResolveLocal(id, localEntries, cloudEntries), ok)
       /\ todoLocal' = todoLocal \ {id}
  /\ UNCHANGED <<now, lastSync, pc, localEntries, cloudEntries, todoCloud,
                 passes, fetched, local0, cloud0, lastSync0, returnedAt,
                 prev>>
  /\ UNCHANGED <<notesVars, loopVars>>

\* the first loop is exhausted; the second begins
EndLocalLoop ==
  /\ pc = "syncLocal"
  /\ todoLocal = {}
  /\ pc' = "syncCloud"
  /\ todoCloud' = DOMAIN cloudEntries
  /\ UNCHANGED <<local, cloud, now, lastSync, localEntries, cloudEntries,
                 todoLocal, syncedCount, conflictCount, passes, calls,
                 fetched, local0, cloud0, lastSync0, returnedAt, prev>>
  /\ UNCHANGED <<notesVars, loopVars>>

\* one iteration of: for id, cloudEntry := range cloudEntries
SyncCloudToLocal ==
  /\ pc = "syncCloud"
  /\ todoCloud # {}
  /\ \E id \in todoCloud, ok \in BOOLEAN :
       /\ Upsert(id, ResolveCloud(id, localEntries, cloudEntries), ok)
       /\ todoCloud' = todoCloud \ {id}
  /\ UNCHANGED <<now, lastSync, pc, localEntries, cloudEntries, todoLocal,
                 passes, fetched, local0, cloud0, lastSync0, returnedAt,
                 prev>>
  /\ UNCHANGED <<notesVars, loopVars>>

\* s.lastSync = time.Now(); the closing log line; performSync returns
SyncComplete ==
  /\ pc = "syncCloud"
  /\ todoCloud = {}
  /\ lastSync' = LastSyncOnComplete(lastSync, now)
  /\ returnedAt' = now
  /\ pc' = "done"
  /\ UNCHANGED <<local, cloud, now, localEntries, cloudEntries, todoLocal,
                 todoCloud, syncedCount, conflictCount, passes, calls,
                 fetched, local0, cloud0, lastSync0, prev>>
  /\ UNCHANGED <<notesVars, loopVars>>

Next ==
  \/ Tick
  \/ SyncNow
  \/ GetAllLocal
  \/ GetAllCloud
  \/ SyncLocalToCloud
  \/ EndLocalLoop
  \/ SyncCloudToLocal
  \/ SyncComplete

Spec == Init /\ [][Next]_vars


\* ---------------------------------------------------------- Store, Notes
\* Store.DeleteEntry: DELETE FROM entries WHERE id = $1
DeleteEntry(store, id) == [i \in DOMAIN store \ {id} |-> store[i]]

\* the error SaveEntry returns: that of conn.Exec, wrapped
SaveEntryErr(execOk) == IF execOk THEN "nil" ELSE "failed to save entry"

DeleteEntryErr_AbsentFails(store, id, execOk) ==
  IF execOk /\ id \in DOMAIN store THEN "nil" ELSE "failed to delete entry"

\* the error DeleteEntry returns: that of conn.Exec, wrapped; the number of
\* rows deleted is not looked at
DeleteEntryErr(store, id, execOk) ==
  IF execOk THEN "nil" ELSE "failed to delete entry"

\* the error GetAll returns
GetAllErr(queryOk) == IF queryOk THEN "nil" ELSE "failed to query entries"

Stamp_KeepCaller(entry, clock) == entry

\* entry.LastModifiedTimestamp = time.Now()
Stamp(entry, clock) == [entry EXCEPT !.LastModifiedTimestamp = clock]

\* l.Entries[entry.ID] = entry
PutEntry(entries, entry) ==
  [id \in DOMAIN entries \cup {entry.ID} |->
     IF id = entry.ID THEN entry ELSE entries[id]]

EntriesAfterSave_OnSuccess(entries, entry, storeErr) ==
  IF storeErr = "nil" THEN PutEntry(entries, entry) ELSE entries

\* the in-memory copy after Notes.SaveEntry: assigned before the store is
\* called, whatever the store then returns
EntriesAfterSave(entries, entry, storeErr) == PutEntry(entries, entry)

RemoveEntry_Clear(entries, id) == NilMap

\* delete(l.Entries, ID)
RemoveEntry(entries, id) == [i \in DOMAIN entries \ {id} |-> entries[i]]

EntriesAfterLoad_Always(entries, logs, err) == logs

\* the in-memory copy after Notes.LoadAll: assigned only past the error check
EntriesAfterLoad(entries, logs, err) == IF err = "nil" THEN logs ELSE entries

\* the entries handed to Notes.SaveEntry: any id and content, with an old
\* LastModifiedTimestamp
SaveInputs ==
  { Entry(id, c, t) : id \in Ids, c \in Contents, t \in {TicksPerMicro} }

\* the entries handed to Store.SaveEntry: any id and content, stamped on a
\* whole microsecond or between two
StoreInputs ==
  { Entry(id, c, t) : id \in Ids, c \in Contents,
                      t \in {TicksPerMicro, TicksPerMicro + 1} }

\* the process has not panicked, and may make another call
Alive == op.name # "panic" /\ ops < MaxOps

\* Notes.LoadAll
LoadAll ==
  /\ Alive
  /\ ops' = ops + 1
  /\ \E queryOk \in BOOLEAN :
       LET err == GetAllErr(queryOk)
           logs == IF queryOk THEN GetAll(local) ELSE NilMap
       IN /\ Entries' = EntriesAfterLoad(Entries, logs, err)
          /\ entriesNil' = (entriesNil /\ Entries' = Entries /\ err # "nil")
          /\ op' = [name |-> "Notes.LoadAll", err |-> err, storeErr |-> err,
                    logs |-> logs, store0 |-> local, mem0 |-> Entries,
                    memNil0 |-> entriesNil]
  /\ UNCHANGED <<local, cloud, now, lastSync, pc, localEntries, cloudEntries,
                 todoLocal, todoCloud, syncedCount, conflictCount, passes,
                 calls, fetched, local0, cloud0, lastSync0, returnedAt, prev,
                 loopVars>>

\* Notes.SaveEntry on a loaded Notes
NotesSaveEntry ==
  /\ Alive
  /\ ops' = ops + 1
  /\ ~entriesNil
  /\ \E entry \in SaveInputs, execOk \in BOOLEAN :
       LET stamped == Stamp(entry, now)
           err == SaveEntryErr(execOk)
       IN /\ Entries' = EntriesAfterSave(Entries, stamped, err)
          /\ local' = IF execOk THEN SaveEntry(local, stamped) ELSE local
          /\ op' = [name |-> "Notes.SaveEntry", arg |-> entry,
                    sent |-> stamped, err |-> err, storeErr |-> err,
                    at |-> now, store0 |-> local, mem0 |-> Entries]
  /\ UNCHANGED <<cloud, now, lastSync, pc, localEntries, cloudEntries,
                 todoLocal, todoCloud, syncedCount, conflictCount, passes,
                 calls, fetched, local0, cloud0, lastSync0, returnedAt, prev,
                 entriesNil, loopVars>>

\* Notes.SaveEntry before any LoadAll: assignment to an entry in a nil map
NotesSaveEntryNilMap ==
  /\ Alive
  /\ ops' = ops + 1
  /\ entriesNil
  /\ op' = [name |-> "panic"]
  /\ UNCHANGED <<local, cloud, now, lastSync, pc, localEntries, cloudEntries,
                 todoLocal, todoCloud, syncedCount, conflictCount, passes,
                 calls, fetched, local0, cloud0, lastSync0, returnedAt, prev,
                 Entries, entriesNil, loopVars>>

\* Notes.Delete
NotesDelete ==
  /\ Alive
  /\ ops' = ops + 1
  /\ \E id \in Ids, execOk \in BOOLEAN :
       LET err == DeleteEntryErr(local, id, execOk)
       IN /\ Entries' = RemoveEntry(Entries, id)
          /\ local' = IF err = "nil" THEN DeleteEntry(local, id) ELSE local
          /\ op' = [name |-> "Notes.Delete", arg |-> id, sent |-> id,
                    err |-> err, storeErr |-> err, execOk |-> execOk,
                    store0 |-> local, mem0 |-> Entries,
                    passes0 |-> passes, pc0 |-> pc]
  /\ UNCHANGED <<cloud, now, lastSync, pc, localEntries, cloudEntries,
                 todoLocal, todoCloud, syncedCount, conflictCount, passes,
                 calls, fetched, local0, cloud0, lastSync0, returnedAt, prev,
                 entriesNil, loopVars>>

\* Store.SaveEntry called directly
StoreSaveEntry ==
  /\ Alive
  /\ ops' = ops + 1
  /\ \E entry \in StoreInputs, execOk \in BOOLEAN :
       /\ local' = IF execOk THEN SaveEntry(local, entry) ELSE local
       /\ op' = [name |-> "Store.SaveEntry", arg |-> entry,
                 err |-> SaveEntryErr(execOk), at |-> now, store0 |-> local]
  /\ UNCHANGED <<cloud, now, lastSync, pc, localEntries, cloudEntries,
                 todoLocal, todoCloud, syncedCount, conflictCount, passes,
                 calls, fetched, local0, cloud0, lastSync0, returnedAt, prev,
                 Entries, entriesNil, loopVars>>

\* Store.DeleteEntry called directly
StoreDeleteEntry ==
  /\ Alive
  /\ ops' = ops + 1
  /\ \E id \in Ids, execOk \in BOOLEAN :
       LET err == DeleteEntryErr(local, id, execOk)
       IN /\ local' = IF err = "nil" THEN DeleteEntry(local, id) ELSE local
          /\ op' = [name |-> "Store.DeleteEntry", arg |-> id, err |-> err,
                    execOk |-> execOk, store0 |-> local]
  /\ UNCHANGED <<cloud, now, lastSync, pc, localEntries, cloudEntries,
                 todoLocal, todoCloud, syncedCount, conflictCount, passes,
                 calls, fetched, local0, cloud0, lastSync0, returnedAt, prev,
                 Entries, entriesNil, loopVars>>

\* NewNotes(localStore): no cloud store takes part
InitNotes == Init /\ cloud = NilMap

NextNotes ==
  \/ Tick
  \/ LoadAll
  \/ NotesSaveEntry
  \/ NotesSaveEntryNilMap
  \/ NotesDelete
  \/ StoreSaveEntry
  \/ StoreDeleteEntry

SpecNotes == InitNotes /\ [][NextNotes]_vars


\* ------------------------------------------------- SyncService.run, Stop
\* performSync is entered by the loop: the pass starts from nothing
EnterPerformSync ==
  /\ pc' = "getLocal"
  /\ passes' = passes + 1
  /\ localEntries' = NilMap
  /\ cloudEntries' = NilMap
  /\ todoLocal' = {}
  /\ todoCloud' = {}
  /\ syncedCount' = 0
  /\ conflictCount' = 0
  /\ calls' = NoCalls
  /\ fetched' = "none"
  /\ local0' = local
  /\ cloud0' = cloud
  /\ lastSync0' = lastSync
  /\ prev' = [clean |-> (pc = "done" /\ fetched = "both" /\ NoUpsertFailed),
               writes |-> syncedCount + conflictCount]
  /\ UNCHANGED <<local, cloud, now, lastSync, returnedAt>>
  /\ UNCHANGED notesVars

\* the pass variables, for the steps of the loop that are not steps of a pass
passVars == <<local, cloud, now, lastSync, pc, localEntries, cloudEntries,
              todoLocal, todoCloud, syncedCount, conflictCount, passes,
              calls, fetched, local0, cloud0, lastSync0, returnedAt, prev>>

\* a loop that starts the pass of a tick in a goroutine of its own
RunAfterCase_Spawn(case) == IF case = "tick" THEN "select" ELSE "stopped"

\* a loop whose select has no effect on the stop case
RunAfterCase_IgnoreStop(case) == IF case = "tick" THEN "syncing" ELSE "select"

\* where run is after the select has chosen a case: inside performSync, which
\* it calls and waits for, or out of the loop
RunAfterCase(case) == IF case = "tick" THEN "syncing" ELSE "stopped"

\* where the loop is, as Stop finds it
LoopPosition ==
  IF runPc = "select" THEN "idle"
  ELSE IF runPc = "syncing" THEN pc
  ELSE "starting"

\* Start: go s.run()
Start ==
  /\ runPc = "notStarted"
  /\ runPc' = "started"
  /\ UNCHANGED <<stopClosed, tickPending, inFlight, stopAt, stopPasses>>
  /\ UNCHANGED <<passVars, notesVars>>
  /\ UNCHANGED <<ticksTaken, progVars>>

\* run: the ticker is created and the initial s.performSync() is entered
RunInitialSync ==
  /\ runPc = "started"
  /\ runPc' = "syncing"
  /\ inFlight' = inFlight + 1
  /\ EnterPerformSync
  /\ UNCHANGED <<stopClosed, tickPending, stopAt, stopPasses>>
  /\ UNCHANGED <<ticksTaken, progVars>>

\* the ticker sends on ticker.C; with a tick already waiting it drops this one
TickerFires ==
  /\ runPc \in {"syncing", "select"}
  /\ ~tickPending
  /\ tickPending' = TRUE
  /\ UNCHANGED <<runPc, stopClosed, inFlight, stopAt, stopPasses>>
  /\ UNCHANGED <<passVars, notesVars>>
  /\ UNCHANGED <<ticksTaken, progVars>>

\* a loop that gives up after a pass that a failed GetAll cut short
RunAfterPass_FetchFatal(got) == IF got = "both" THEN "select" ELSE "stopped"

\* where run goes when performSync returns: performSync returns nothing, so
\* whatever the pass fetched, run goes (back) to the select
RunAfterPass(got) == "select"

\* performSync has returned to run
RunPassReturned ==
  /\ runPc = "syncing"
  /\ pc = "done"
  /\ runPc' = RunAfterPass(fetched)
  /\ inFlight' = inFlight - 1
  /\ UNCHANGED <<stopClosed, tickPending, stopAt, stopPasses>>
  /\ UNCHANGED <<passVars, notesVars>>
  /\ UNCHANGED <<ticksTaken, progVars>>

\* select takes case <-ticker.C, a case that can proceed: s.performSync()
RunSelectTick ==
  /\ runPc = "select"
  /\ tickPending
  /\ passes < MaxPasses
  /\ tickPending' = FALSE
  /\ runPc' = RunAfterCase("tick")
  /\ inFlight' = inFlight + 1
  /\ EnterPerformSync
  /\ UNCHANGED <<stopClosed, stopAt, stopPasses>>
  /\ ticksTaken' = ticksTaken + 1
  /\ UNCHANGED progVars

\* select takes case <-s.stopChan, a case that can proceed: return
RunSelectStop ==
  /\ runPc = "select"
  /\ stopClosed
  /\ runPc' = RunAfterCase("stop")
  /\ UNCHANGED <<stopClosed, tickPending, inFlight, stopAt, stopPasses>>
  /\ UNCHANGED <<passVars, notesVars>>
  /\ UNCHANGED <<ticksTaken, progVars>>

\* Stop: close(s.stopChan); it returns at once, wherever the loop is
Stop ==
  /\ runPc # "notStarted"
  /\ ~stopClosed
  /\ stopClosed' = TRUE
  /\ stopAt' = LoopPosition
  /\ stopPasses' = passes
  /\ UNCHANGED <<runPc, tickPending, inFlight>>
  /\ UNCHANGED <<passVars, notesVars>>
  /\ UNCHANGED <<ticksTaken, progVars>>

NextLoop ==
  \/ Start
  \/ RunInitialSync
  \/ TickerFires
  \/ RunPassReturned
  \/ RunSelectTick
  \/ RunSelectStop
  \/ Stop
  \/ GetAllLocal
  \/ GetAllCloud
  \/ SyncLocalToCloud
  \/ EndLocalLoop
  \/ SyncCloudToLocal
  \/ SyncComplete

SpecLoop == Init /\ [][NextLoop]_vars


\* ------------------------------------------- a whole pass, as one function
\* the local store after a pass from stores l and c in which both fetches
\* succeeded and the upserts for the ids in failed, and only those, failed
LocalAfterPass(l, c, failed) ==
  [id \in DOMAIN l \cup ((DOMAIN c) \ failed) |->
     IF id \in failed THEN l[id]
     ELSE IF id \notin DOMAIN l THEN Row(c[id])
     ELSE IF id \in DOMAIN c
            /\ After(c[id].LastModifiedTimestamp, l[id].LastModifiedTimestamp)
       THEN Row(c[id])
     ELSE l[id]]

\* the cloud store after the same pass
CloudAfterPass(l, c, failed) ==
  [id \in DOMAIN c \cup ((DOMAIN l) \ failed) |->
     IF id \in failed THEN c[id]
     ELSE IF id \notin DOMAIN c THEN Row(l[id])
     ELSE IF id \in DOMAIN l
            /\ After(l[id].LastModifiedTimestamp, c[id].LastModifiedTimestamp)
       THEN Row(l[id])
     ELSE c[id]]

\* ------------------------------------------ SyncNow called beside the loop
\* SyncNow is called from another goroutine: it takes no lock and looks at
\* nothing before it enters performSync
SyncNowCall ==
  /\ syncNowPc = "none"
  /\ runPc # "notStarted"
  /\ syncNowPc' = "performSync"
  /\ inFlight' = inFlight + 1
  /\ UNCHANGED <<runPc, stopClosed, tickPending, stopAt, stopPasses,
                 ticksTaken, wiring, origin, proc, api, tui>>
  /\ UNCHANGED <<passVars, notesVars>>

\* the pass of that call, from its fetches to its return, between two steps
\* of the loop
SyncNowPass ==
  /\ syncNowPc = "performSync"
  /\ \E okLocal \in BOOLEAN, okCloud \in BOOLEAN, failed \in SUBSET Ids :
       IF okLocal /\ okCloud
       THEN /\ local' = LocalAfterPass(local, cloud, failed)
            /\ cloud' = CloudAfterPass(local, cloud, failed)
            /\ lastSync' = LastSyncOnComplete(lastSync, now)
       ELSE UNCHANGED <<local, cloud, lastSync>>
  /\ syncNowPc' = "returned"
  /\ inFlight' = inFlight - 1
  /\ UNCHANGED <<runPc, stopClosed, tickPending, stopAt, stopPasses,
                 ticksTaken, wiring, origin, proc, api, tui>>
  /\ UNCHANGED <<now, pc, localEntries, cloudEntries, todoLocal, todoCloud,
                 syncedCount, conflictCount, passes, calls, fetched, local0,
                 cloud0, lastSync0, returnedAt, prev>>
  /\ UNCHANGED notesVars

\* one id in the stores is enough to have two passes side by side
InitTrigger == Init /\ DOMAIN local \subseteq {"1"} /\ DOMAIN cloud \subseteq {"1"}

NextTrigger ==
  \/ Start
  \/ RunInitialSync
  \/ TickerFires
  \/ RunPassReturned
  \/ RunSelectTick
  \/ RunSelectStop
  \/ Stop
  \/ GetAllLocal
  \/ GetAllCloud
  \/ SyncLocalToCloud
  \/ EndLocalLoop
  \/ SyncCloudToLocal
  \/ SyncComplete
  \/ SyncNowCall
  \/ SyncNowPass

SpecTrigger == InitTrigger /\ [][NextTrigger]_vars


\* -------------------------------------------- user deletes between passes
\* the user's calls on Notes beside the passes of a SyncService on the same
\* local store
NextDelete ==
  \/ NotesDelete
  \/ SyncNow
  \/ GetAllLocal
  \/ GetAllCloud
  \/ SyncLocalToCloud
  \/ EndLocalLoop
  \/ SyncCloudToLocal
  \/ SyncComplete

\* the replicas agree before the user deletes
InitDelete == Init /\ local = cloud

SpecDelete == InitDelete /\ [][NextDelete]_vars


\* ------------------------------------------------ passes cut off and resumed
\* the pass that has returned took both snapshots and none of its upserts
\* failed
PassClean == pc = "done" /\ fetched = "both" /\ NoUpsertFailed

\* runSyncNow: a process of its own opens the two stores and calls SyncNow
\* once; origin keeps the stores as they were when the first pass after the
\* last clean one began
RunSyncNow ==
  /\ pc \in {"idle", "done", "crashed"}
  /\ passes < MaxPasses
  /\ EnterPerformSync
  /\ origin' = IF passes = 0 \/ PassClean
               THEN [local |-> local, cloud |-> cloud]
               ELSE origin
  /\ UNCHANGED <<runPc, stopClosed, tickPending, inFlight, stopAt,
                 stopPasses, ticksTaken, syncNowPc, wiring, proc, api,
                 tui>>

\* the process dies inside a pass: what the pass wrote stays written, what
\* the process held in memory is gone
Crash ==
  /\ pc \in {"getLocal", "getCloud", "syncLocal", "syncCloud"}
  /\ pc' = "crashed"
  /\ lastSync' = 0
  /\ UNCHANGED <<local, cloud, now, localEntries, cloudEntries, todoLocal,
                 todoCloud, syncedCount, conflictCount, passes, calls,
                 fetched, local0, cloud0, lastSync0, returnedAt, prev>>
  /\ UNCHANGED <<notesVars, loopVars>>

NextResume ==
  \/ RunSyncNow
  \/ Crash
  \/ GetAllLocal
  \/ GetAllCloud
  \/ SyncLocalToCloud
  \/ EndLocalLoop
  \/ SyncCloudToLocal
  \/ SyncComplete

SpecResume == Init /\ [][NextResume]_vars


\* ------------------------------------------------------ main, runSyncNow
\* what the process reads from config.yaml, and whether the cloud database
\* can be reached when it is opened
Configs ==
  [enabled : BOOLEAN, cloudConnection : {"", "postgres://cloud"},
   intervalParses : BOOLEAN, cloudOpens : BOOLEAN]

\* a main that looks at the connection string only
SyncStarts_IgnoreFlag(cfg) == cfg.cloudConnection # "" /\ cfg.cloudOpens

\* main creates and starts the SyncService: sync is enabled, a cloud
\* connection is configured, and it opens; an interval that does not parse
\* is replaced by the default
SyncStarts(cfg) ==
  cfg.enabled /\ cfg.cloudConnection # "" /\ cfg.cloudOpens

\* runSyncNow makes its pass: a cloud connection is configured (the enabled
\* flag is not read) and it opens
SyncNowRuns(cfg) == cfg.cloudConnection # "" /\ cfg.cloudOpens

\* what runSyncNow returns
SyncNowErr(cfg) ==
  IF cfg.cloudConnection # "" /\ ~cfg.cloudOpens
  THEN "error connecting to cloud database" ELSE "nil"

\* main without arguments, up to NewNotes: the local store is opened, the
\* SyncService is built on it and on the cloud store and started, Notes is
\* built on the local store
Main ==
  /\ wiring = NoWiring
  /\ \E cfg \in Configs :
       /\ wiring' = [built |-> TRUE, mode |-> "tui", cfg |-> cfg,
                     syncLocal |-> IF SyncStarts(cfg) THEN "localStore"
                                   ELSE "none",
                     syncCloud |-> IF SyncStarts(cfg) THEN "cloudStore"
                                   ELSE "none",
                     notesStore |-> "localStore",
                     loaded |-> FALSE, exit |-> "none"]
       /\ runPc' = IF SyncStarts(cfg) THEN "started" ELSE runPc
  /\ UNCHANGED <<stopClosed, tickPending, inFlight, stopAt, stopPasses,
                 ticksTaken, syncNowPc, origin, proc, api, tui>>
  /\ UNCHANGED <<passVars, notesVars>>

\* main goes on: notes.LoadAll(), then the TUI, or exit 1
MainLoadAll ==
  /\ wiring.built /\ wiring.mode = "tui" /\ ~wiring.loaded
  /\ \E queryOk \in BOOLEAN :
       LET err == GetAllErr(queryOk)
           logs == IF queryOk THEN GetAll(local) ELSE NilMap
       IN /\ Entries' = EntriesAfterLoad(Entries, logs, err)
          /\ entriesNil' = (entriesNil /\ err # "nil")
          /\ op' = [name |-> "Notes.LoadAll", err |-> err, storeErr |-> err,
                    logs |-> logs, store0 |-> local, mem0 |-> Entries,
                    memNil0 |-> entriesNil]
          /\ wiring' = [wiring EXCEPT !.loaded = TRUE,
                          !.exit = IF err = "nil" THEN "none" ELSE "exit 1"]
  /\ UNCHANGED <<runPc, stopClosed, tickPending, inFlight, stopAt,
                 stopPasses, ticksTaken, syncNowPc, origin, proc, api,
                 tui>>
  /\ UNCHANGED <<passVars, ops>>

\* main with the argument sync: runSyncNow, up to its entry into the pass of
\* SyncNow on a SyncService it never starts
MainSyncCommand ==
  /\ wiring = NoWiring
  /\ \E cfg \in Configs :
       /\ wiring' = [built |-> TRUE, mode |-> "sync", cfg |-> cfg,
                     syncLocal |-> IF SyncNowRuns(cfg) THEN "localStore"
                                   ELSE "none",
                     syncCloud |-> IF SyncNowRuns(cfg) THEN "cloudStore"
                                   ELSE "none",
                     notesStore |-> "none",
                     loaded |-> FALSE,
                     exit |-> IF SyncNowErr(cfg) = "nil" THEN "none"
                              ELSE "exit 1"]
       /\ IF SyncNowRuns(cfg) THEN EnterPerformSync
          ELSE UNCHANGED <<passVars, notesVars>>
  /\ UNCHANGED <<runPc, stopClosed, tickPending, inFlight, stopAt,
                 stopPasses, ticksTaken, syncNowPc, origin, proc, api,
                 tui>>

\* one id in the stores is enough for the passes of main
InitMain == Init /\ DOMAIN local \subseteq {"2"} /\ DOMAIN cloud \subseteq {"2"}

NextMain ==
  \/ Main
  \/ MainLoadAll
  \/ MainSyncCommand
  \/ RunInitialSync
  \/ TickerFires
  \/ RunPassReturned
  \/ RunSelectTick
  \/ RunSelectStop
  \/ Stop
  \/ GetAllLocal
  \/ GetAllCloud
  \/ SyncLocalToCloud
  \/ EndLocalLoop
  \/ SyncCloudToLocal
  \/ SyncComplete

SpecMain == InitMain /\ [][NextMain]_vars


\* ------------------------------------------------- core.Entry's methods
\* time.Time.IsZero
IsZero(t) == t = 0

\* time.Time.Sub (it saturates at the ends of int64 nanoseconds, some 292
\* years, far outside the values used here)
Sub(t, u) == t - u

\* Entry.InProgress
InProgress(entry) == IsZero(entry.EndedAtTimestamp)

\* an EstimationBias that subtracts without looking for unset timestamps
EstimationBias_NoZeroCheck(entry) ==
  [bias |-> entry.EstimatedDuration
              - Sub(entry.EndedAtTimestamp, entry.StartedAtTimestamp),
   err |-> "nil"]

\* Entry.EstimationBias: (time.Duration, error)
EstimationBias(entry) ==
  IF IsZero(entry.EndedAtTimestamp) \/ IsZero(entry.StartedAtTimestamp)
  THEN [bias |-> 0, err |-> "nil"]
  ELSE [bias |-> entry.EstimatedDuration
                   - Sub(entry.EndedAtTimestamp, entry.StartedAtTimestamp),
        err |-> "nil"]

\* the entries the methods are called on
EntryInputs ==
  { [Entry("1", c, TicksPerMicro) EXCEPT !.StartedAtTimestamp = st,
                                         !.EndedAtTimestamp = en,
                                         !.EstimatedDuration = d] :
      c \in Contents, st \in 0..MaxStamp, en \in 0..MaxStamp,
      d \in 0..MaxStamp }

CallInProgress ==
  /\ \E entry \in EntryInputs :
       op' = [name |-> "Entry.InProgress", arg |-> entry,
              ret |-> InProgress(entry)]
  /\ UNCHANGED <<passVars, Entries, entriesNil, ops, loopVars>>

CallEstimationBias ==
  /\ \E entry \in EntryInputs :
       op' = [name |-> "Entry.EstimationBias", arg |-> entry,
              ret |-> EstimationBias(entry).bias,
              err |-> EstimationBias(entry).err]
  /\ UNCHANGED <<passVars, Entries, entriesNil, ops, loopVars>>

InitEntry == Init /\ local = NilMap /\ cloud = NilMap

NextEntry ==
  \/ CallInProgress
  \/ CallEstimationBias

SpecEntry == InitEntry /\ [][NextEntry]_vars

\* ------------------------------------------------------------- properties
\* performSync has returned
Done == pc = "done" /\ passes > 0

\* both GetAll calls of the pass succeeded: the pass has its two snapshots
Fetched == fetched = "both"

LocalOnly == DOMAIN localEntries \ DOMAIN cloudEntries
CloudOnly == DOMAIN cloudEntries \ DOMAIN localEntries
InBoth == DOMAIN localEntries \cap DOMAIN cloudEntries
LocalNewer ==
  { id \in InBoth : localEntries[id].LastModifiedTimestamp
                      > cloudEntries[id].LastModifiedTimestamp }
CloudNewer ==
  { id \in InBoth : cloudEntries[id].LastModifiedTimestamp
                      > localEntries[id].LastModifiedTimestamp }

CallsTo(id, store) == { i \in 1..Len(calls[id]) : calls[id][i].store = store }
NumFailed ==
  Cardinality(UNION { { <<id, i>> : i \in FailedCalls(id) } : id \in Ids })

\* C1 (push): once a pass that took both snapshots has returned with no
\* failed upsert, every record that was only in the local snapshot is in the
\* cloud store under the same id, equal in every field (LastModifiedTimestamp
\* included) to the record of the snapshot.
C1_Push ==
  (Done /\ Fetched /\ NoUpsertFailed) =>
     \A id \in LocalOnly : id \in DOMAIN cloud /\ cloud[id] = localEntries[id]

C1_Witness ==
  /\ Done /\ Fetched /\ NoUpsertFailed
  /\ \E id \in LocalOnly :
       /\ id \notin DOMAIN cloud0
       /\ id \in DOMAIN cloud
       /\ cloud[id] = local0[id]

\* C2 (pull): once a pass that took both snapshots has returned with no
\* failed upsert, every record that was only in the cloud snapshot is in the
\* local store, equal in every field to the record of the snapshot.
C2_Pull ==
  (Done /\ Fetched /\ NoUpsertFailed) =>
     \A id \in CloudOnly : id \in DOMAIN local /\ local[id] = cloudEntries[id]

C2_Witness ==
  /\ Done /\ Fetched /\ NoUpsertFailed
  /\ \E id \in CloudOnly :
       /\ id \notin DOMAIN local0
       /\ id \in DOMAIN local
       /\ local[id] = cloud0[id]

\* C3 (last write wins, local newer): for an id in both snapshots whose local
\* LastModifiedTimestamp is strictly after the cloud's, a returned pass has
\* issued exactly one upsert for the id, to the cloud store and carrying the
\* local record; the local record is untouched (no upsert to local, same
\* value as when the pass began); and when that upsert succeeded the cloud
\* record equals the local record in every field.
C3_LocalNewer ==
  (Done /\ Fetched) =>
     \A id \in LocalNewer :
        /\ Len(calls[id]) = 1
        /\ calls[id][1].store = "cloud"
        /\ calls[id][1].entry = localEntries[id]
        /\ local[id] = local0[id]
        /\ calls[id][1].ok => (cloud[id] = local[id])

C3_Witness ==
  /\ Done /\ Fetched
  /\ \E id \in LocalNewer :
       /\ calls[id][1].ok
       /\ cloud0[id].Body # local0[id].Body
       /\ cloud[id] = local0[id]
       /\ local[id] = local0[id]

\* C4 (last write wins, cloud newer): for an id in both snapshots whose cloud
\* LastModifiedTimestamp is strictly after the local's, a returned pass has
\* issued exactly one upsert for the id: the cloud record, into the local
\* store; it has issued no upsert to the cloud store for that id, and the
\* cloud record is as it was.
C4_CloudNewer ==
  (Done /\ Fetched) =>
     \A id \in CloudNewer :
        /\ Len(calls[id]) = 1
        /\ calls[id][1].store = "local"
        /\ calls[id][1].entry = cloudEntries[id]
        /\ CallsTo(id, "cloud") = {}
        /\ cloud[id] = cloud0[id]

C4_Witness ==
  /\ Done /\ Fetched
  /\ \E id \in CloudNewer :
       /\ calls[id][1].ok
       /\ local0[id].Body # cloud0[id].Body
       /\ local[id] = cloud0[id]

\* C5 (tie, no write): when the two stores hold an id with the same
\* LastModifiedTimestamp as a pass begins, the pass issues no upsert for that
\* id, to either store, at any point, whatever the other fields hold.
C5_TieNoWrite ==
  \A id \in DOMAIN local0 \cap DOMAIN cloud0 :
     (local0[id].LastModifiedTimestamp = cloud0[id].LastModifiedTimestamp)
        => calls[id] = <<>>

C5_Witness ==
  /\ Done /\ Fetched
  /\ \E id \in InBoth :
       /\ local0[id].LastModifiedTimestamp = cloud0[id].LastModifiedTimestamp
       /\ local0[id] # cloud0[id]
       /\ calls[id] = <<>>
       /\ local[id] = local0[id] /\ cloud[id] = cloud0[id]
  /\ AllCalls # {}

\* C6 (idempotence): a pass that directly follows a pass in which both
\* fetches and every upsert succeeded, with no write to either store in
\* between, issues no upsert at all and counts no push, pull or update.
C6_Idempotent ==
  (passes >= 2 /\ prev.clean) =>
     /\ AllCalls = {}
     /\ syncedCount = 0 /\ conflictCount = 0
     /\ local = local0 /\ cloud = cloud0

C6_Witness ==
  /\ Done /\ Fetched /\ passes = 2
  /\ prev.clean /\ prev.writes > 0
  /\ AllCalls = {}

\* C7 (fail-closed fetch): a pass in which the GetAll of either store failed
\* has issued no upsert when it returns, and both stores are as they were
\* when it began.
C7_FailClosed ==
  (Done /\ ~Fetched) =>
     /\ AllCalls = {}
     /\ local = local0 /\ cloud = cloud0

C7_Witness ==
  /\ Done /\ fetched = "local"
  /\ DOMAIN local0 \ DOMAIN cloud0 # {}
  /\ AllCalls = {} /\ cloud = cloud0

\* C8 (partial-failure isolation): when an upsert of a pass has failed, the
\* returned pass has still issued the upsert of every other id that needed
\* one, and what it reports carries a failure count equal to the number of
\* failed upserts.
C8_FailureCount ==
  (Done /\ Fetched /\ NumFailed > 0) =>
     /\ \A id \in LocalOnly \cup CloudOnly \cup LocalNewer \cup CloudNewer :
           Len(calls[id]) = 1
     /\ "failed" \in DOMAIN Report
     /\ Report["failed"] = NumFailed

\* C9 (timestamp authority): every upsert a pass issues carries, under the
\* id it is issued for, exactly the record of the pass's snapshot of the
\* other store: no field is changed, LastModifiedTimestamp included.
C9_SnapshotRecord ==
  \A id \in Ids : \A i \in 1..Len(calls[id]) :
     LET c == calls[id][i] IN
       /\ c.entry.ID = id
       /\ c.store = "cloud" => (id \in DOMAIN localEntries
                                 /\ c.entry = localEntries[id])
       /\ c.store = "local" => (id \in DOMAIN cloudEntries
                                 /\ c.entry = cloudEntries[id])

C9_Witness ==
  /\ Done /\ Fetched
  /\ \E c \in AllCalls :
       c.store = "cloud" /\ c.ok /\ now > c.entry.LastModifiedTimestamp
         /\ cloud[c.entry.ID].LastModifiedTimestamp
              = local0[c.entry.ID].LastModifiedTimestamp
  /\ \E c \in AllCalls : c.store = "local"

\* C10 (lastSync): when a pass has returned, lastSync is the instant the pass
\* returned if both fetches succeeded, whether or not upserts failed, and is
\* what it was when the pass began if a fetch failed.
C10_LastSync ==
  Done => IF Fetched THEN lastSync = returnedAt ELSE lastSync = lastSync0

C10_Witness ==
  /\ Done /\ Fetched /\ ~NoUpsertFailed
  /\ syncedCount + conflictCount = 0
  /\ lastSync = now /\ lastSync > lastSync0 /\ lastSync0 > 0

\* C11 (Notes.SaveEntry): the record SaveEntry works with is the given one
\* with LastModifiedTimestamp overwritten by the clock at the call, whatever
\* value the caller passed; that stamped record is the in-memory copy under
\* its id, and the same record is what Store.SaveEntry receives.
C11_SaveStamps ==
  (op.name = "Notes.SaveEntry") =>
     /\ op.sent = [op.arg EXCEPT !.LastModifiedTimestamp = op.at]
     /\ op.arg.ID \in DOMAIN Entries
     /\ Entries[op.arg.ID] = op.sent
     /\ \A j \in DOMAIN op.mem0 \ {op.arg.ID} :
           j \in DOMAIN Entries /\ Entries[j] = op.mem0[j]
     /\ op.err = "nil" => local = SaveEntry(op.store0, op.sent)

C11_Witness ==
  /\ op.name = "Notes.SaveEntry" /\ op.err = "nil"
  /\ op.arg.LastModifiedTimestamp # op.at
  /\ Entries[op.arg.ID].LastModifiedTimestamp = op.at
  /\ op.arg.ID \in DOMAIN op.mem0
  /\ op.mem0[op.arg.ID].Body # op.arg.Body
  /\ local[op.arg.ID].Body = op.arg.Body

\* C12 (Notes.SaveEntry, store failure): when Store.SaveEntry fails,
\* SaveEntry returns the store's error as it is, the store is as it was, and
\* the in-memory copy holds the newly stamped record all the same.
C12_SaveFailure ==
  (op.name = "Notes.SaveEntry" /\ op.storeErr # "nil") =>
     /\ op.err = op.storeErr
     /\ local = op.store0
     /\ op.arg.ID \in DOMAIN Entries
     /\ Entries[op.arg.ID] = op.sent
     /\ Entries[op.arg.ID].LastModifiedTimestamp = op.at

C12_Witness ==
  /\ op.name = "Notes.SaveEntry" /\ op.err = "failed to save entry"
  /\ op.arg.ID \in DOMAIN local
  /\ Entries[op.arg.ID] # local[op.arg.ID]
  /\ Entries[op.arg.ID] # op.mem0[op.arg.ID]
  /\ local[op.arg.ID] = op.mem0[op.arg.ID]

\* C13 (Notes.Delete): Delete(id) leaves the in-memory copy without id and
\* with every other entry as it was, passes id to Store.DeleteEntry and
\* returns its error; for an id that was not in the in-memory copy the copy
\* is unchanged.
C13_Delete ==
  (op.name = "Notes.Delete") =>
     /\ DOMAIN Entries = DOMAIN op.mem0 \ {op.arg}
     /\ \A j \in DOMAIN Entries : Entries[j] = op.mem0[j]
     /\ op.arg \notin DOMAIN op.mem0 => Entries = op.mem0
     /\ op.sent = op.arg
     /\ op.err = op.storeErr
     /\ op.err = "nil" => local = DeleteEntry(op.store0, op.arg)

C13_Witness ==
  /\ op.name = "Notes.Delete" /\ op.err = "nil"
  /\ op.arg \notin DOMAIN op.mem0
  /\ op.mem0 # NilMap
  /\ Entries = op.mem0
  /\ local = op.store0

\* C14 (Notes.LoadAll): after a LoadAll that succeeded the in-memory copy is
\* the snapshot GetAll returned, the content of the store; after a LoadAll
\* whose GetAll failed the error is returned and the in-memory copy is what
\* it was before the call.
C14_LoadAll ==
  (op.name = "Notes.LoadAll") =>
     IF op.storeErr = "nil"
     THEN op.err = "nil" /\ Entries = GetAll(op.store0) /\ ~entriesNil
     ELSE op.err = op.storeErr /\ Entries = op.mem0
            /\ entriesNil = op.memNil0

C14_Witness ==
  /\ op.name = "Notes.LoadAll" /\ op.err = "failed to query entries"
  /\ op.mem0 # NilMap
  /\ Entries = op.mem0
  /\ local # NilMap

\* C15 (store timestamp transparency): after a Store.SaveEntry that
\* succeeded, GetAll holds the record under its id with exactly the
\* LastModifiedTimestamp that was given.
C15_ExactLastModified ==
  (op.name = "Store.SaveEntry" /\ op.err = "nil") =>
     /\ op.arg.ID \in DOMAIN GetAll(local)
     /\ GetAll(local)[op.arg.ID].LastModifiedTimestamp
          = op.arg.LastModifiedTimestamp

\* C16 (upsert): after a Store.SaveEntry that succeeded the store holds the
\* id, whether or not it held it before; every column of its record is taken
\* from the given record and none from the record held before; the records
\* under other ids, and the set of other ids, are as they were.
C16_Upsert ==
  (op.name = "Store.SaveEntry" /\ op.err = "nil") =>
     /\ DOMAIN local = DOMAIN op.store0 \cup {op.arg.ID}
     /\ local[op.arg.ID] = Row(op.arg)
     /\ \A f \in {"ID", "Title", "Tags", "EstimatedDuration", "Body"} :
           local[op.arg.ID][f] = op.arg[f]
     /\ \A j \in DOMAIN op.store0 \ {op.arg.ID} : local[j] = op.store0[j]

C16_Witness ==
  /\ op.name = "Store.SaveEntry" /\ op.err = "nil"
  /\ op.arg.ID \in DOMAIN op.store0
  /\ \A f \in {"Title", "Tags", "StartedAtTimestamp", "EndedAtTimestamp",
               "LastModifiedTimestamp", "EstimatedDuration", "Body"} :
        op.store0[op.arg.ID][f] # op.arg[f] /\ local[op.arg.ID][f] = op.arg[f]
  /\ DOMAIN op.store0 # {op.arg.ID}

\* C17 (idempotent delete): a Store.DeleteEntry whose statement the database
\* executed returns no error whether or not the store held the id; for an
\* absent id the store is unchanged, so deleting an id a second time
\* succeeds again and leaves the store as the first delete left it.
C17_DeleteIdempotent ==
  (op.name = "Store.DeleteEntry" /\ op.execOk) =>
     /\ op.err = "nil"
     /\ op.arg \notin DOMAIN local
     /\ op.arg \notin DOMAIN op.store0 => local = op.store0
     /\ DeleteEntryErr(local, op.arg, TRUE) = "nil"
     /\ DeleteEntry(local, op.arg) = local

C17_Witness ==
  /\ op.name = "Store.DeleteEntry" /\ op.execOk /\ op.err = "nil"
  /\ op.arg \notin DOMAIN op.store0
  /\ op.store0 # NilMap
  /\ local = op.store0

\* Stop was called while a pass of the loop was between its entry and its
\* return
StoppedMidPass ==
  stopAt \in {"getLocal", "getCloud", "syncLocal", "syncCloud"}

\* C18 (no mid-pass abort): the loop is out (stopped) only with no pass in
\* flight; and a pass that was in flight when Stop was called, once it has
\* returned with both snapshots taken, has issued every upsert its two
\* snapshots call for: to the cloud for each id only in the local snapshot or
\* newer there, to the local store for each id only in the cloud snapshot or
\* newer there.
C18_NoMidPassAbort ==
  /\ runPc = "stopped" => inFlight = 0 /\ pc = "done"
  /\ (StoppedMidPass /\ passes = stopPasses /\ Done /\ Fetched) =>
        /\ \A id \in LocalOnly \cup LocalNewer : CallsTo(id, "cloud") # {}
        /\ \A id \in CloudOnly \cup CloudNewer : CallsTo(id, "local") # {}

C18_Witness ==
  /\ stopAt = "getLocal" /\ passes = stopPasses
  /\ runPc = "stopped"
  /\ Fetched /\ NoUpsertFailed
  /\ LocalOnly # {} /\ CloudOnly # {}
  /\ \A id \in LocalOnly : cloud[id] = localEntries[id]
  /\ \A id \in CloudOnly : local[id] = cloudEntries[id]

\* C19 (stop while idle is terminal): after a Stop called while the loop
\* waited in its select, no further pass begins.
C19_StopIdleTerminal ==
  stopAt = "idle" => passes = stopPasses

\* C20 (sequential loop): the loop never has two of its passes in flight, and
\* whenever it is at its select, where a tick is considered, no pass is in
\* flight: the pass it started before has returned.
C20_Sequential ==
  /\ inFlight <= 1
  /\ runPc = "select" => inFlight = 0 /\ pc = "done"
  /\ runPc = "syncing" <=> inFlight = 1

C20_Witness ==
  /\ runPc = "syncing" /\ passes = 2 /\ inFlight = 1
  /\ pc = "syncCloud"
  /\ tickPending

\* C21 (one pass at a time): counting the passes of the background loop and
\* the passes of SyncNow calls on the same SyncService, at most one pass is
\* in flight.
C21_OnePassAtATime ==
  inFlight <= 1

\* the last call on Notes was a Delete that took its id out of the local
\* store while no pass was in flight, and the pass that began next is the
\* current one
DeletedBeforePass ==
  /\ op.name = "Notes.Delete" /\ op.err = "nil"
  /\ op.arg \in DOMAIN op.store0
  /\ op.pc0 \in {"idle", "done"}
  /\ passes = op.passes0 + 1

\* C22 (deletions do not propagate): when an id was deleted from the local
\* store and the cloud store still holds it, the next pass, once it has
\* returned with both fetches and every upsert successful, has written the
\* cloud's record back into the local store and left it in the cloud store;
\* and no step of any pass takes an id out of the cloud store.
C22_DeleteReappears ==
  /\ (DeletedBeforePass /\ Done /\ Fetched /\ NoUpsertFailed
        /\ op.arg \in DOMAIN cloud0) =>
       /\ op.arg \in DOMAIN local /\ op.arg \in DOMAIN cloud
       /\ local[op.arg] = cloud0[op.arg]
       /\ cloud[op.arg] = cloud0[op.arg]
  /\ DOMAIN cloud0 \subseteq DOMAIN cloud

C22_Witness ==
  /\ DeletedBeforePass /\ Done /\ Fetched /\ NoUpsertFailed
  /\ op.arg \in DOMAIN cloud0
  /\ op.arg \notin DOMAIN local0
  /\ local[op.arg] = cloud[op.arg]
  /\ local[op.arg] = op.store0[op.arg]
  /\ DOMAIN local0 # {}

\* the successful upserts of the pass in flight for the ids in S
Succeeded(S) ==
  Cardinality({ id \in S : \E i \in 1..Len(calls[id]) : calls[id][i].ok })

\* C23 (per-pass outcome): what a returned pass reports carries separate
\* counts of the records pushed (only in the local snapshot), pulled (only
\* in the cloud snapshot) and updated (in both, one newer), and the count of
\* failed upserts.
C23_Outcome ==
  (Done /\ Fetched) =>
     /\ {"pushed", "pulled", "updated", "failed"} \subseteq DOMAIN Report
     /\ Report["pushed"] = Succeeded(LocalOnly)
     /\ Report["pulled"] = Succeeded(CloudOnly)
     /\ Report["updated"] = Succeeded(LocalNewer \cup CloudNewer)
     /\ Report["failed"] = NumFailed

\* ids the two snapshots hold with equal LastModifiedTimestamp and different
\* contents
TiedApart ==
  { id \in InBoth :
      /\ localEntries[id].LastModifiedTimestamp
           = cloudEntries[id].LastModifiedTimestamp
      /\ localEntries[id] # cloudEntries[id] }

\* C24 (exact tie of divergent edits): once a pass with both fetches and
\* every upsert successful has returned, an id the two snapshots held with
\* equal LastModifiedTimestamp and different contents is held by both stores
\* with the contents of the local (primary) snapshot.
C24_TieKeepsPrimary ==
  (Done /\ Fetched /\ NoUpsertFailed) =>
     \A id \in TiedApart :
        local[id] = localEntries[id] /\ cloud[id] = localEntries[id]

C27_OnePassPerTick ==
  passes = ticksTaken

\* C26 (safe resume): once a pass with both fetches and every upsert
\* successful has returned, the two stores are what one pass without any
\* failure makes of the stores as they were when the first of the passes
\* before it that were cut off (by a crash, a failed fetch or failed
\* upserts) began; nothing but passes has written in between.
C26_SafeResume ==
  (Done /\ Fetched /\ NoUpsertFailed) =>
     /\ local = LocalAfterPass(origin.local, origin.cloud, {})
     /\ cloud = CloudAfterPass(origin.local, origin.cloud, {})

C26_Witness ==
  /\ Done /\ Fetched /\ NoUpsertFailed
  /\ passes = 2
  /\ origin.cloud # cloud0
  /\ local # local0
  /\ lastSync0 = 0

\* the three conditions of main for the background SyncService
Configured(cfg) == cfg.enabled /\ cfg.cloudConnection # "" /\ cfg.cloudOpens

C29_HandleExclusive ==
  (wiring.built /\ wiring.notesStore # "none") =>
     wiring.notesStore \notin {wiring.syncLocal, wiring.syncCloud}

\* C30 (entry status): InProgress returns true exactly for an entry whose
\* EndedAtTimestamp is the zero time; EstimationBias returns no error, and 0
\* when StartedAtTimestamp or EndedAtTimestamp is the zero time, otherwise
\* EstimatedDuration less the time from StartedAtTimestamp to
\* EndedAtTimestamp.
C30_EntryStatus ==
  /\ (op.name = "Entry.InProgress") =>
        (op.ret <=> (op.arg.EndedAtTimestamp = 0))
  /\ (op.name = "Entry.EstimationBias") =>
        /\ op.err = "nil"
        /\ op.ret = IF op.arg.StartedAtTimestamp = 0
                       \/ op.arg.EndedAtTimestamp = 0
                    THEN 0
                    ELSE op.arg.EstimatedDuration
                           - (op.arg.EndedAtTimestamp
                                - op.arg.StartedAtTimestamp)

C30_Witness ==
  /\ op.name = "Entry.EstimationBias"
  /\ op.arg.StartedAtTimestamp = 1 /\ op.arg.EndedAtTimestamp = 3
  /\ op.arg.EstimatedDuration = 1
  /\ op.ret = -1 /\ op.err = "nil"

\* C32 (convergence): once a pass with both fetches and every upsert
\* successful has returned, no one else having written to either store, and
\* no id having been held with equal LastModifiedTimestamp and different
\* contents, the two stores hold the same ids and under each id the same
\* record.
C32_Convergence ==
  (Done /\ Fetched /\ NoUpsertFailed /\ TiedApart = {}) =>
     /\ DOMAIN local = DOMAIN cloud
     /\ \A id \in DOMAIN local : local[id] = cloud[id]

C32_Witness ==
  /\ Done /\ Fetched /\ NoUpsertFailed /\ TiedApart = {}
  /\ LocalOnly # {} /\ CloudNewer # {}
  /\ local0 # cloud0
  /\ local = cloud

\* C35 (write footprint): a pass issues at most one upsert for an id, so to
\* one store and not to both; and no step of a pass takes an id out of
\* either store (it never calls DeleteEntry).
C35_WriteFootprint ==
  /\ \A id \in Ids :
        /\ Len(calls[id]) <= 1
        /\ CallsTo(id, "local") = {} \/ CallsTo(id, "cloud") = {}
  /\ DOMAIN local0 \subseteq DOMAIN local
  /\ DOMAIN cloud0 \subseteq DOMAIN cloud

C35_Witness ==
  /\ Done /\ Fetched
  /\ \E id \in Ids : CallsTo(id, "cloud") = {1} /\ CallsTo(id, "local") = {}
  /\ \E id \in Ids : CallsTo(id, "local") = {1} /\ CallsTo(id, "cloud") = {}
  /\ LocalNewer # {} /\ CloudOnly # {}

\* ------------------------------------------ user saves next to the passes
\* main hands one local store to the SyncService and to Notes: the TUI's
\* LoadAll and SaveEntry run between the store calls of a pass. The clock
\* stands at StartClock, no earlier than any stored timestamp.
NextEdit ==
  \/ LoadAll
  \/ NotesSaveEntry
  \/ SyncNow
  \/ GetAllLocal
  \/ GetAllCloud
  \/ SyncLocalToCloud
  \/ EndLocalLoop
  \/ SyncCloudToLocal
  \/ SyncComplete

\* one id in the stores; the user may save under either id
InitEdit == Init /\ DOMAIN local \subseteq {"1"} /\ DOMAIN cloud \subseteq {"1"}

SpecEdit == InitEdit /\ [][NextEdit]_vars

\* C33 (monotonic timestamps under interleaving): in no step of any
\* interleaving of Notes.SaveEntry calls with the store calls of passes does
\* the LastModifiedTimestamp a store holds for an id decrease.
C33_MonotonicTimestamps ==
  [][ /\ \A id \in DOMAIN local \cap DOMAIN local' :
           local'[id].LastModifiedTimestamp >= local[id].LastModifiedTimestamp
      /\ \A id \in DOMAIN cloud \cap DOMAIN cloud' :
           cloud'[id].LastModifiedTimestamp >= cloud[id].LastModifiedTimestamp
    ]_vars

\* the record Notes holds in memory for the id of the last call, as it was
\* before the call
Cached == op.mem0[op.arg.ID]

\* the last call was a successful Notes.SaveEntry of a record Notes held
SavedCached ==
  /\ op.name = "Notes.SaveEntry"
  /\ op.storeErr = "nil"
  /\ op.arg.ID \in DOMAIN op.mem0
  /\ op.sent = Stamp(Cached, op.at)

\* C34 (working copy not refreshed): no step of a pass changes the entries
\* Notes holds in memory, whatever it writes to the local store; and a
\* successful Notes.SaveEntry of a record Notes holds leaves the local store
\* with that record's content under the time of the call, whatever record
\* a pass had put there since the load.
C34_StaleWorkingCopy ==
  [][ /\ ops' = ops => Entries' = Entries /\ entriesNil' = entriesNil
      /\ (ops' # ops /\ SavedCached') =>
            local'[op'.arg.ID] = Row(Stamp(Cached', now))
    ]_vars

C34_Witness ==
  /\ SavedCached
  /\ Done /\ Fetched /\ NoUpsertFailed
  /\ op.arg.ID \in CloudNewer
  /\ op.store0[op.arg.ID] = cloud0[op.arg.ID]
  /\ Cached = local0[op.arg.ID]
  /\ local[op.arg.ID] = Row(Stamp(local0[op.arg.ID], op.at))
  /\ local[op.arg.ID].Title # cloud[op.arg.ID].Title

\* ------------------------------------------------- the loop, run fairly
\* the steps of the goroutine of run that need nothing but the processor or
\* the return of a store call
GoroutineStep ==
  \/ RunInitialSync
  \/ RunPassReturned
  \/ GetAllLocal
  \/ GetAllCloud
  \/ SyncLocalToCloud
  \/ EndLocalLoop
  \/ SyncCloudToLocal
  \/ SyncComplete

\* one id in the stores
InitLoopFair ==
  Init /\ DOMAIN local \subseteq {"1"} /\ DOMAIN cloud \subseteq {"1"}

\* the loop with a goroutine that is scheduled and store calls that return
\* (weak fairness of its steps), and with Go's select, which chooses
\* pseudo-randomly among the cases that can proceed, so that a closed stop
\* channel met again and again is chosen in the end (strong fairness)
SpecLoopFair ==
  /\ InitLoopFair
  /\ [][NextLoop]_vars
  /\ WF_vars(GoroutineStep)
  /\ SF_vars(RunSelectStop)

\* C36 (loop termination): with every store call of the pass in flight
\* returning, once Stop has closed the stop channel the loop of run
\* eventually is stopped; and once stopped it stays stopped and enters no
\* pass.
C36_LoopTerminates ==
  /\ stopClosed ~> (runPc = "stopped")
  /\ [][runPc = "stopped" => runPc' = "stopped" /\ passes' = passes]_vars

C36_Witness ==
  /\ stopClosed
  /\ runPc = "stopped"
  /\ stopAt \notin {"none", "idle", "starting", "done"}
  /\ pc = "done"
  /\ passes >= 1

\* ------------------------------------------------------- main's shutdown
\* a store call made through a handle that has been closed returns an error
ClosedCallsFail ==
  /\ (pc = "getLocal" /\ "local" \in proc.closed) => fetched' = fetched
  /\ (pc = "getCloud" /\ "cloud" \in proc.closed) => fetched' = fetched
  /\ \A id \in Ids :
       (Len(calls'[id]) > Len(calls[id])
          /\ calls'[id][Len(calls'[id])].store \in proc.closed)
         => ~calls'[id][Len(calls'[id])].ok

\* the store calls of the pass, made through the handles main opened
HandleGetAllLocal == GetAllLocal /\ ClosedCallsFail
HandleGetAllCloud == GetAllCloud /\ ClosedCallsFail
HandleSyncLocalToCloud == SyncLocalToCloud /\ ClosedCallsFail
HandleSyncCloudToLocal == SyncCloudToLocal /\ ClosedCallsFail

\* main returns: the deferred syncService.Stop() has run (the action Stop),
\* then the deferred cloudStore.Close(ctx) runs
CloseCloud ==
  /\ stopClosed
  /\ "cloud" \notin proc.closed
  /\ proc' = [proc EXCEPT !.closed = @ \cup {"cloud"}]
  /\ UNCHANGED <<runPc, stopClosed, tickPending, inFlight, stopAt,
                 stopPasses, ticksTaken, syncNowPc, wiring, origin, api,
                 tui>>
  /\ UNCHANGED <<passVars, notesVars>>

\* then the deferred localStore.Close(ctx)
CloseLocal ==
  /\ "cloud" \in proc.closed
  /\ "local" \notin proc.closed
  /\ proc' = [proc EXCEPT !.closed = @ \cup {"local"}]
  /\ UNCHANGED <<runPc, stopClosed, tickPending, inFlight, stopAt,
                 stopPasses, ticksTaken, syncNowPc, wiring, origin, api,
                 tui>>
  /\ UNCHANGED <<passVars, notesVars>>

\* main has returned: the process exits and the goroutine of run with it,
\* wherever it is
Exit ==
  /\ "local" \in proc.closed
  /\ ~proc.exited
  /\ proc' = [proc EXCEPT !.exited = TRUE]
  /\ runPc' = "dead"
  /\ pc' = "dead"
  /\ UNCHANGED <<local, cloud, now, lastSync, localEntries, cloudEntries,
                 todoLocal, todoCloud, syncedCount, conflictCount, passes,
                 calls, fetched, local0, cloud0, lastSync0, returnedAt,
                 prev>>
  /\ UNCHANGED <<stopClosed, tickPending, inFlight, stopAt, stopPasses,
                 ticksTaken, syncNowPc, wiring, origin, api, tui>>
  /\ UNCHANGED notesVars

NextShutdown ==
  \/ Start
  \/ RunInitialSync
  \/ TickerFires
  \/ RunPassReturned
  \/ RunSelectTick
  \/ RunSelectStop
  \/ HandleGetAllLocal
  \/ HandleGetAllCloud
  \/ HandleSyncLocalToCloud
  \/ EndLocalLoop
  \/ HandleSyncCloudToLocal
  \/ SyncComplete
  \/ Stop
  \/ CloseCloud
  \/ CloseLocal
  \/ Exit

\* one id in the stores
InitShutdown ==
  Init /\ DOMAIN local \subseteq {"1"} /\ DOMAIN cloud \subseteq {"1"}

SpecShutdown == InitShutdown /\ [][NextShutdown]_vars

\* a step in which the pass calls GetAll or SaveEntry on a closed handle
CallOnClosed ==
  \/ pc = "getLocal" /\ pc' \in {"getCloud", "done"}
       /\ "local" \in proc.closed
  \/ pc = "getCloud" /\ pc' \in {"syncLocal", "done"}
       /\ "cloud" \in proc.closed
  \/ \E id \in Ids :
       /\ Len(calls'[id]) > Len(calls[id])
       /\ calls'[id][Len(calls'[id])].store \in proc.closed

\* C37 (no store call after close at shutdown): no step of a pass calls
\* GetAll or SaveEntry on a store handle that main has closed.
C37_NoCallAfterClose == [][~CallOnClosed]_vars

\* ------------------------------------------------------ Stop, called again
\* Stop on a SyncService whose stop channel is closed: close of a closed
\* channel panics, and the panic, which nothing recovers, ends the process
StopAgain ==
  /\ runPc \notin {"notStarted", "dead"}
  /\ stopClosed
  /\ proc' = [proc EXCEPT !.panicked = TRUE]
  /\ runPc' = "dead"
  /\ pc' = "dead"
  /\ UNCHANGED <<local, cloud, now, lastSync, localEntries, cloudEntries,
                 todoLocal, todoCloud, syncedCount, conflictCount, passes,
                 calls, fetched, local0, cloud0, lastSync0, returnedAt,
                 prev>>
  /\ UNCHANGED <<stopClosed, tickPending, inFlight, stopAt, stopPasses,
                 ticksTaken, syncNowPc, wiring, origin, api, tui>>
  /\ UNCHANGED notesVars

NextStop ==
  \/ Start
  \/ RunInitialSync
  \/ TickerFires
  \/ RunPassReturned
  \/ RunSelectTick
  \/ RunSelectStop
  \/ GetAllLocal
  \/ GetAllCloud
  \/ SyncLocalToCloud
  \/ EndLocalLoop
  \/ SyncCloudToLocal
  \/ SyncComplete
  \/ Stop
  \/ StopAgain

\* one id in the stores
InitStop ==
  Init /\ DOMAIN local \subseteq {"1"} /\ DOMAIN cloud \subseteq {"1"}

SpecStop == InitStop /\ [][NextStop]_vars

\* C38 (Stop is safe to call repeatedly): no call of Stop faults, the
\* second on one SyncService included.
C38_StopTwiceNoFault == ~proc.panicked

\* ------------------------------------------------------------ the HTTP API
\* the key runAPIServer falls back to when ZENZEN_API_KEY is not set
DefaultAPIKey == "dev-key-change-in-production"

\* ZENZEN_API_KEY: not set, or set
EnvKeys == {"", "prod-key"}

\* what a request carries as X-API-Key header and as api_key query
\* parameter: nothing, or either key a server can be configured with (the
\* one it is not configured with being a wrong key)
Keys == {"", DefaultAPIKey, "prod-key"}

\* what a request carries as Authorization: Bearer token
Tokens == {"", "jwt-good", "jwt-bad"}

Paths == {"/health", "/health/", "/api/v1/entries", "/api/v1/entries/1"}

Methods == {"GET", "POST"}

Requests ==
  [method : Methods, path : Paths, header : Keys, query : Keys,
   bearer : Tokens]

\* the token of the Authorization header, "" without one
extractBearerToken(r) == r.bearer

\* the error of CognitoConfig.ValidateToken
ValidateToken(token) == IF token = "jwt-good" THEN "nil" ELSE "invalid token"

\* the {id} of a path under /api/v1/entries/
PathId(path) == IF path = "/api/v1/entries/1" THEN "1" ELSE ""

\* the handler chi routes a request to: the three GET routes of setupRoutes,
\* 405 for another method on one of their paths, 404 for any other path
Route(method, path) ==
  LET handler == IF path = "/health" THEN "handleHealth"
                 ELSE IF path = "/api/v1/entries" THEN "handleGetEntries"
                 ELSE IF PathId(path) # "" THEN "handleGetEntry"
                 ELSE "notFound"
  IN IF handler = "notFound" \/ method = "GET" THEN handler
     ELSE "methodNotAllowed"

\* a middleware that lets through every request with an X-API-Key header
authMiddleware_AnyHeader(srv, r) ==
  IF r.path = "/health" \/ r.header # "" THEN "next" ELSE "401"

\* authMiddleware: "next" when the request goes on to the router, "401"
\* when it is answered Unauthorized
authMiddleware(srv, r) ==
  IF r.path = "/health" THEN "next"
  ELSE IF srv.cognito /\ extractBearerToken(r) # ""
    THEN IF ValidateToken(extractBearerToken(r)) # "nil" THEN "401"
         ELSE "next"
  ELSE LET apiKey == IF r.header = "" THEN r.query ELSE r.header
       IN IF apiKey # srv.apiKey THEN "401" ELSE "next"

\* what a handler answers, and how many times it calls s.store.GetAll()
Answer(handler, r, store, queryOk) ==
  IF handler = "handleHealth" THEN [status |-> 200, reads |-> 0]
  ELSE IF handler = "handleGetEntries"
    THEN [status |-> IF queryOk THEN 200 ELSE 500, reads |-> 1]
  ELSE IF handler = "handleGetEntry"
    THEN [status |-> IF ~queryOk THEN 500
                     ELSE IF PathId(r.path) \in DOMAIN GetAll(store) THEN 200
                     ELSE 404,
          reads |-> 1]
  ELSE IF handler = "methodNotAllowed" THEN [status |-> 405, reads |-> 0]
  ELSE [status |-> 404, reads |-> 0]

Handlers == {"handleHealth", "handleGetEntries", "handleGetEntry"}

\* runAPIServer: the store is the cloud database when one is configured, the
\* key comes from the environment or is the default, Cognito is set when
\* its three variables are and its configuration loads
RunAPIServer ==
  /\ ~api.built
  /\ \E envKey \in EnvKeys, cloudConn \in BOOLEAN, cognito \in BOOLEAN :
       api' = [built |-> TRUE,
               store |-> IF cloudConn THEN "cloud" ELSE "local",
               apiKey |-> IF envKey = "" THEN DefaultAPIKey ELSE envKey,
               cognito |-> cognito,
               served |-> FALSE,
               req |-> [method |-> "GET", path |-> "/health", header |-> "",
                        query |-> "", bearer |-> ""],
               handler |-> "none", status |-> 0, reads |-> 0]
  /\ UNCHANGED <<runPc, stopClosed, tickPending, inFlight, stopAt,
                 stopPasses, ticksTaken, syncNowPc, wiring, origin, proc,
                 tui>>
  /\ UNCHANGED <<passVars, notesVars>>

\* Server.ServeHTTP: one request through authMiddleware, the router and the
\* handler. The Server keeps nothing from one request to the next (its
\* fields are set before Start), so a behaviour serves one request, any one.
ServeHTTP ==
  /\ api.built
  /\ ~api.served
  /\ \E r \in Requests, queryOk \in BOOLEAN :
       LET store == IF api.store = "cloud" THEN cloud ELSE local
           routed == IF authMiddleware(api, r) = "next"
                       THEN Route(r.method, r.path) ELSE "401"
           answer == IF routed = "401" THEN [status |-> 401, reads |-> 0]
                     ELSE Answer(routed, r, store, queryOk)
       IN api' = [api EXCEPT !.served = TRUE, !.req = r,
                             !.handler = IF routed \in Handlers THEN routed
                                         ELSE "none",
                             !.status = answer.status,
                             !.reads = answer.reads]
  /\ UNCHANGED <<runPc, stopClosed, tickPending, inFlight, stopAt,
                 stopPasses, ticksTaken, syncNowPc, wiring, origin, proc,
                 tui>>
  /\ UNCHANGED <<passVars, notesVars>>

NextApi ==
  \/ RunAPIServer
  \/ ServeHTTP

\* one id in the databases, which hold the same
InitApi == Init /\ local = cloud /\ DOMAIN local \subseteq {"1"}

SpecApi == InitApi /\ [][NextApi]_vars

\* the request carries the configured API key, as header or as query
\* parameter, or, with Cognito configured, a bearer token that validates
Carries(r) ==
  \/ r.header = api.apiKey
  \/ r.query = api.apiKey
  \/ api.cognito /\ r.bearer # "" /\ ValidateToken(r.bearer) = "nil"

Minute == 2

\* formatDuration, for durations under an hour: the whole minutes, as "3m",
\* or "" for none; the string is held as its number, "" as 0
formatDuration(d) == d \div Minute

\* parseDuration of such a string
parseDuration(str) == str * Minute

\* the number an id is the decimal string of: the ids are those of the
\* stores and the readings of the clock
IdNum == [id \in { ToString(n) : n \in 0..MaxClock } |->
            CHOOSE n \in 0..MaxClock : ToString(n) = id]

\* the digits of a decimal string of one or two digits
Digits(id) ==
  IF IdNum[id] < 10 THEN <<IdNum[id]>>
  ELSE <<IdNum[id] \div 10, IdNum[id] % 10>>

\* idI < idJ on strings: byte by byte, a proper prefix first
StringLess(idI, idJ) ==
  LET a == Digits(idI)
      b == Digits(idJ)
  IN \/ a[1] < b[1]
     \/ a[1] = b[1] /\ Len(a) < Len(b)
     \/ a[1] = b[1] /\ Len(a) = 2 /\ Len(b) = 2 /\ a[2] < b[2]

\* strings.Contains(strings.ToLower(str), strings.ToLower(text)), for the
\* filter texts and the titles and bodies used here
ContainsFold(str, text) ==
  \/ text = ""
  \/ text = "design" /\ str = "System Design"
  \/ text = "edit" /\ str \in {"Edited", "edited body"}

FilterTexts == {"", "design", "edit"}
FilterTags == {"", "learning", "interviews"}

\* the entries that pass the text filter and the tag filter
FilteredIDs(m, entries) ==
  { id \in DOMAIN entries :
      /\ m.filterText # "" =>
           \/ ContainsFold(entries[id].Title, m.filterText)
           \/ ContainsFold(entries[id].Body, m.filterText)
      /\ m.filterTag # "" =>
           \E k \in 1..Len(entries[id].Tags) : entries[id].Tags[k] = m.filterTag }

\* the timestamp the list is sorted by
SortTime(entry, sortBy) ==
  IF sortBy = "ended_at" THEN entry.EndedAtTimestamp
  ELSE IF sortBy = "last_modified" THEN entry.LastModifiedTimestamp
  ELSE entry.StartedAtTimestamp

\* the less function of getFilteredAndSortedIDs: zero timestamps last, then
\* by timestamp in the direction of the sort, then by id in that direction
DisplayLess(m, entries, idI, idJ) ==
  LET timeI == SortTime(entries[idI], m.sortBy)
      timeJ == SortTime(entries[idJ], m.sortBy)
  IN IF IsZero(timeI) /\ ~IsZero(timeJ) THEN FALSE
     ELSE IF ~IsZero(timeI) /\ IsZero(timeJ) THEN TRUE
     ELSE IF timeI # timeJ
       THEN IF m.sortDescending THEN timeI > timeJ ELSE timeI < timeJ
     ELSE IF m.sortDescending THEN StringLess(idJ, idI)
     ELSE StringLess(idI, idJ)

\* sort.Slice under a less function that orders any two ids
RECURSIVE SortIDs(_, _, _)
SortIDs(S, m, entries) ==
  IF S = {} THEN <<>>
  ELSE LET first == CHOOSE i \in S :
                      \A j \in S \ {i} : DisplayLess(m, entries, i, j)
       IN <<first>> \o SortIDs(S \ {first}, m, entries)

\* Model.getFilteredAndSortedIDs
getFilteredAndSortedIDs(m, entries) ==
  SortIDs(FilteredIDs(m, entries), m, entries)

\* the less function of NewModel: zero StartedAtTimestamp last, then the
\* most recent first; ids started at the same time are not ordered
NewModelLess(entries, idI, idJ) ==
  LET timeI == entries[idI].StartedAtTimestamp
      timeJ == entries[idJ].StartedAtTimestamp
  IN IF IsZero(timeI) /\ ~IsZero(timeJ) THEN FALSE
     ELSE IF ~IsZero(timeI) /\ IsZero(timeJ) THEN TRUE
     ELSE timeI > timeJ

\* the orders sort.Slice can leave the keys of the map in
NewModelOrders(entries) ==
  { ids \in [1..Cardinality(DOMAIN entries) -> DOMAIN entries] :
      /\ \A k, l \in DOMAIN ids : k # l => ids[k] # ids[l]
      /\ \A k, l \in DOMAIN ids :
           k < l => ~NewModelLess(entries, ids[l], ids[k]) }

\* the inputs of the edit view: title, tags (the comma-separated string, held
\* as the list it is joined from and split to), estimated duration and body
FormOf(entry) ==
  [Title |-> entry.Title, Tags |-> entry.Tags,
   Estimated |-> IF entry.EstimatedDuration > 0
                   THEN formatDuration(entry.EstimatedDuration) ELSE 0,
   Body |-> entry.Body]

\* what the user can have typed into the inputs
TypedForms ==
  { [Title |-> "Edited", Tags |-> <<"interviews">>, Estimated |-> 1,
     Body |-> "edited body"],
    [Title |-> "", Tags |-> <<>>, Estimated |-> 0, Body |-> ""] }

\* the entry with the fields of the edit view saved into it
WithForm(entry, form) ==
  [entry EXCEPT !.Title = IF form.Title = "" THEN "Untitled" ELSE form.Title,
                !.Tags = form.Tags,
                !.EstimatedDuration = IF form.Estimated # 0
                                        THEN parseDuration(form.Estimated)
                                        ELSE @,
                !.Body = form.Body]

\* n: the entry created at the given time
NewEntry(clock) ==
  [ID |-> ToString(clock), Title |-> "New Log Entry", Tags |-> <<>>,
   StartedAtTimestamp |-> clock, EndedAtTimestamp |-> 0,
   LastModifiedTimestamp |-> clock, EstimatedDuration |-> 0, Body |-> ""]

\* orderedIDs without the first occurrence of id
RECURSIVE RemoveID(_, _)
RemoveID(ids, id) ==
  IF ids = <<>> THEN <<>>
  ELSE IF Head(ids) = id THEN Tail(ids)
  ELSE <<Head(ids)>> \o RemoveID(Tail(ids), id)

\* a delete that leaves the selection where it was
IndexAfterDelete_Keep(selectedIndex, shown) == selectedIndex

\* d: the selection after the delete, shown being the length of the list
\* displayed now
IndexAfterDelete(selectedIndex, shown) ==
  IF selectedIndex >= shown /\ selectedIndex > 0 THEN selectedIndex - 1
  ELSE selectedIndex

\* every variable but those a key press can touch
tuiRest == <<cloud, lastSync, pc, localEntries, cloudEntries, todoLocal,
             todoCloud, syncedCount, conflictCount, passes, calls, fetched,
             local0, cloud0, lastSync0, returnedAt, prev, entriesNil, op,
             ops, runPc, stopClosed, tickPending, inFlight, stopAt,
             stopPasses, ticksTaken, syncNowPc, wiring, origin, proc, api>>

\* main from NewNotes to StartTUI, the load having succeeded, and NewModel:
\* the Model holds the very map Notes holds
StartTUI ==
  /\ ~tui.built
  /\ Entries' = EntriesAfterLoad(Entries, GetAll(local), "nil")
  /\ entriesNil' = FALSE
  /\ \E ids \in NewModelOrders(Entries') :
       tui' = [built |-> TRUE, orderedIDs |-> ids, selectedIndex |-> 0,
               view |-> "list", form |-> FormOf(NewEntry(0)),
               sortBy |-> "started_at", sortDescending |-> TRUE,
               filterText |-> "", filterTag |-> "", filterInputMode |-> "",
               pendingKeySequence |-> "", entered |-> "", saved |-> "",
               keys |-> 0]
  /\ UNCHANGED <<local, cloud, now, lastSync, pc, localEntries, cloudEntries,
                 todoLocal, todoCloud, syncedCount, conflictCount, passes,
                 calls, fetched, local0, cloud0, lastSync0, returnedAt,
                 prev, op, ops>>
  /\ UNCHANGED <<runPc, stopClosed, tickPending, inFlight, stopAt,
                 stopPasses, ticksTaken, syncNowPc, wiring, origin, proc,
                 api>>

\* Update passes the key to handleKey: no filter input is open and the view
\* is the list
InList ==
  /\ tui.built
  /\ tui.keys < MaxKeys
  /\ tui.filterInputMode = ""
  /\ tui.view = "list"

\* the Model after a key: one more key handled
Pressed(m) == [m EXCEPT !.keys = @ + 1]

\* handleKey takes the key as the second of a sequence begun with c
ClearSequence == tui.pendingKeySequence = "c"

\* s: the next sort field
KeyS ==
  /\ InList
  /\ tui' = Pressed([tui EXCEPT
               !.sortBy = IF @ = "started_at" THEN "ended_at"
                          ELSE IF @ = "ended_at" THEN "last_modified"
                          ELSE "started_at",
               !.selectedIndex = 0,
               !.pendingKeySequence = ""])
  /\ UNCHANGED <<tuiRest, local, now, Entries>>

\* r: the other sort direction
KeyR ==
  /\ InList
  /\ tui' = Pressed([tui EXCEPT !.sortDescending = ~@,
                                !.selectedIndex = 0,
                                !.pendingKeySequence = ""])
  /\ UNCHANGED <<tuiRest, local, now, Entries>>

\* c: begins a clear sequence, or as its second key clears both filters
KeyC ==
  /\ InList
  /\ tui' = Pressed(IF ClearSequence
                      THEN [tui EXCEPT !.filterText = "", !.filterTag = "",
                                       !.selectedIndex = 0,
                                       !.pendingKeySequence = ""]
                      ELSE [tui EXCEPT !.pendingKeySequence = "c"])
  /\ UNCHANGED <<tuiRest, local, now, Entries>>

\* f: opens the text filter input, or as the second key of a clear sequence
\* clears the text filter
KeyF ==
  /\ InList
  /\ tui' = Pressed(IF ClearSequence
                      THEN [tui EXCEPT !.filterText = "",
                                       !.selectedIndex = 0,
                                       !.pendingKeySequence = ""]
                      ELSE [tui EXCEPT !.filterInputMode = "text"])
  /\ UNCHANGED <<tuiRest, local, now, Entries>>

\* t: opens the tag filter input, or as the second key of a clear sequence
\* clears the tag filter
KeyT ==
  /\ InList
  /\ tui' = Pressed(IF ClearSequence
                      THEN [tui EXCEPT !.filterTag = "",
                                       !.selectedIndex = 0,
                                       !.pendingKeySequence = ""]
                      ELSE [tui EXCEPT !.filterInputMode = "tag"])
  /\ UNCHANGED <<tuiRest, local, now, Entries>>

\* enter in a filter input: the text typed, or the tag typed or picked from
\* the suggestions, becomes the filter
FilterEnter ==
  /\ tui.built
  /\ tui.keys < MaxKeys
  /\ tui.filterInputMode # ""
  /\ \E text \in FilterTexts, tag \in FilterTags :
       tui' = Pressed([tui EXCEPT
                 !.filterText = IF tui.filterInputMode = "text" THEN text
                                ELSE @,
                 !.filterTag = IF tui.filterInputMode = "tag" THEN tag
                               ELSE @,
                 !.filterInputMode = "",
                 !.selectedIndex = 0])
  /\ UNCHANGED <<tuiRest, local, now, Entries>>

\* esc in a filter input: the filter stays as it was
FilterEsc ==
  /\ tui.built
  /\ tui.keys < MaxKeys
  /\ tui.filterInputMode # ""
  /\ tui' = Pressed([tui EXCEPT !.filterInputMode = ""])
  /\ UNCHANGED <<tuiRest, local, now, Entries>>

\* up, k
KeyUp ==
  /\ InList
  /\ LET displayIDs == getFilteredAndSortedIDs(tui, Entries)
     IN tui' = Pressed([tui EXCEPT
                  !.selectedIndex = IF @ > 0 /\ Len(displayIDs) > 0
                                      THEN @ - 1 ELSE @,
                  !.pendingKeySequence = ""])
  /\ UNCHANGED <<tuiRest, local, now, Entries>>

\* down, j
KeyDown ==
  /\ InList
  /\ LET displayIDs == getFilteredAndSortedIDs(tui, Entries)
     IN tui' = Pressed([tui EXCEPT
                  !.selectedIndex = IF @ < Len(displayIDs) - 1
                                      THEN @ + 1 ELSE @,
                  !.pendingKeySequence = ""])
  /\ UNCHANGED <<tuiRest, local, now, Entries>>

\* enter, space: the selected entry of the displayed list is loaded into the
\* inputs of the edit view; an index past the end of the list panics
KeyEnter ==
  /\ InList
  /\ LET displayIDs == getFilteredAndSortedIDs(tui, Entries)
     IN IF DOMAIN Entries = {} \/ Len(displayIDs) = 0
          THEN /\ tui' = Pressed([tui EXCEPT !.pendingKeySequence = ""])
               /\ UNCHANGED proc
        ELSE IF tui.selectedIndex >= Len(displayIDs)
          THEN /\ tui' = Pressed([tui EXCEPT !.view = "panic"])
               /\ proc' = [proc EXCEPT !.panicked = TRUE]
        ELSE /\ tui' = Pressed([tui EXCEPT
                         !.form = FormOf(Entries[displayIDs[tui.selectedIndex + 1]]),
                         !.view = "edit",
                         !.entered = displayIDs[tui.selectedIndex + 1],
                         !.saved = "",
                         !.pendingKeySequence = ""])
             /\ UNCHANGED proc
  /\ UNCHANGED <<cloud, lastSync, pc, localEntries, cloudEntries, todoLocal,
                 todoCloud, syncedCount, conflictCount, passes, calls,
                 fetched, local0, cloud0, lastSync0, returnedAt, prev,
                 entriesNil, op, ops, runPc, stopClosed, tickPending,
                 inFlight, stopAt, stopPasses, ticksTaken, syncNowPc, wiring,
                 origin, api>>
  /\ UNCHANGED <<local, now, Entries>>

\* keys typed into the inputs of the edit view
EditType ==
  /\ tui.built
  /\ tui.keys < MaxKeys
  /\ tui.filterInputMode = ""
  /\ tui.view = "edit"
  /\ \E form \in TypedForms : tui' = Pressed([tui EXCEPT !.form = form])
  /\ UNCHANGED <<tuiRest, local, now, Entries>>

\* esc in the edit view: the inputs are saved into the entry at selectedIndex
\* of orderedIDs, which goes to saveEntryFn, that is Notes.SaveEntry
EditEsc ==
  /\ tui.built
  /\ tui.keys < MaxKeys
  /\ tui.filterInputMode = ""
  /\ tui.view = "edit"
  /\ \E execOk \in BOOLEAN :
       LET selectedID == tui.orderedIDs[tui.selectedIndex + 1]
           entry == WithForm(Entries[selectedID], tui.form)
           stamped == Stamp(entry, now)
       IN /\ Entries' = EntriesAfterSave(PutEntry(Entries, entry), stamped,
                                         SaveEntryErr(execOk))
          /\ local' = IF execOk THEN SaveEntry(local, stamped) ELSE local
          /\ tui' = Pressed([tui EXCEPT !.view = "list",
                                        !.saved = selectedID])
  /\ UNCHANGED <<tuiRest, now>>

\* d: the selected entry of the displayed list leaves the map and
\* orderedIDs, and goes to deleteEntryFn, that is Notes.Delete
KeyD ==
  /\ InList
  /\ LET displayIDs == getFilteredAndSortedIDs(tui, Entries)
     IN IF Len(displayIDs) = 0
          THEN /\ tui' = Pressed([tui EXCEPT !.pendingKeySequence = ""])
               /\ UNCHANGED <<Entries, local, proc>>
        ELSE IF tui.selectedIndex >= Len(displayIDs)
          THEN /\ tui' = Pressed([tui EXCEPT !.view = "panic"])
               /\ proc' = [proc EXCEPT !.panicked = TRUE]
               /\ UNCHANGED <<Entries, local>>
        ELSE \E execOk \in BOOLEAN :
               LET selectedID == displayIDs[tui.selectedIndex + 1]
                   left == RemoveEntry(Entries, selectedID)
                   err == DeleteEntryErr(local, selectedID, execOk)
               IN /\ Entries' = left
                  /\ local' = IF err = "nil" THEN DeleteEntry(local, selectedID)
                              ELSE local
                  /\ tui' = Pressed([tui EXCEPT
                              !.orderedIDs = RemoveID(@, selectedID),
                              !.selectedIndex =
                                 IndexAfterDelete(@,
                                   Len(getFilteredAndSortedIDs(tui, left))),
                              !.pendingKeySequence = ""])
                  /\ UNCHANGED proc
  /\ UNCHANGED <<cloud, lastSync, pc, localEntries, cloudEntries, todoLocal,
                 todoCloud, syncedCount, conflictCount, passes, calls,
                 fetched, local0, cloud0, lastSync0, returnedAt, prev,
                 entriesNil, op, ops, runPc, stopClosed, tickPending,
                 inFlight, stopAt, stopPasses, ticksTaken, syncNowPc, wiring,
                 origin, api>>
  /\ UNCHANGED now

\* n: a new entry, with the clock's reading as id, goes into the map, to the
\* front of orderedIDs and to saveEntryFn, and the edit view opens on it; the
\* clock has moved on by the time the handler returns
KeyN ==
  /\ InList
  /\ now < MaxClock
  /\ now' = now + 1
  /\ \E execOk \in BOOLEAN :
       LET newEntry == NewEntry(now)
           stamped == Stamp(newEntry, now)
       IN /\ Entries' = EntriesAfterSave(PutEntry(Entries, newEntry), stamped,
                                         SaveEntryErr(execOk))
          /\ local' = IF execOk THEN SaveEntry(local, stamped) ELSE local
          /\ tui' = Pressed([tui EXCEPT
                      !.orderedIDs = <<newEntry.ID>> \o @,
                      !.selectedIndex = 0,
                      !.form = [Title |-> "New Log Entry", Tags |-> <<>>,
                                Estimated |-> 0, Body |-> ""],
                      !.view = "edit",
                      !.entered = newEntry.ID,
                      !.saved = "",
                      !.pendingKeySequence = ""])
  /\ UNCHANGED tuiRest

\* the TUI with an entry opened for editing from the list
NextTuiEdit ==
  \/ StartTUI
  \/ KeyS
  \/ KeyR
  \/ KeyC
  \/ KeyF
  \/ KeyT
  \/ FilterEnter
  \/ FilterEsc
  \/ KeyUp
  \/ KeyDown
  \/ KeyEnter
  \/ EditType
  \/ EditEsc

\* the TUI with entries created, deleted, filtered and sorted
NextTuiList ==
  \/ StartTUI
  \/ KeyS
  \/ KeyR
  \/ KeyC
  \/ KeyF
  \/ KeyT
  \/ FilterEnter
  \/ FilterEsc
  \/ KeyUp
  \/ KeyDown
  \/ KeyD
  \/ KeyN
  \/ EditType
  \/ EditEsc

\* the local database as main finds it
InitTui == Init /\ local = cloud

SpecTuiEdit == InitTui /\ [][NextTuiEdit]_vars

SpecTuiList == InitTui /\ [][NextTuiList]_vars

\* C39 (edit target): the entry saved when the edit view is left with esc is
\* the entry that was selected in the displayed list when the edit view was
\* entered.
C39_EditTarget ==
  (tui.built /\ tui.saved # "") => tui.saved = tui.entered

\* no id occurs twice in the sequence
NoDuplicates(ids) ==
  \A k, l \in DOMAIN ids : k # l => ids[k] # ids[l]

\* C40 (index consistency): after any sequence of n (with the esc that leaves
\* the new entry's edit view), d, filter and sort keys, two n's never reading
\* the same clock value, orderedIDs holds the keys of the entries map, each
\* once, and selectedIndex is an index of the displayed list whenever that
\* list is not empty.
C40_IndexConsistency ==
  tui.built =>
    /\ { tui.orderedIDs[k] : k \in DOMAIN tui.orderedIDs } = DOMAIN Entries
    /\ NoDuplicates(tui.orderedIDs)
    /\ LET displayIDs == getFilteredAndSortedIDs(tui, Entries)
       IN Len(displayIDs) > 0 =>
            (tui.selectedIndex >= 0 /\ tui.selectedIndex < Len(displayIDs))
    /\ ~proc.panicked

C40_Witness ==
  /\ tui.built
  /\ tui.view = "list"
  /\ \E id \in DOMAIN Entries : id \notin Ids
  /\ \E id \in DOMAIN local0 : id \notin DOMAIN Entries
  /\ tui.filterTag # ""
  /\ getFilteredAndSortedIDs(tui, Entries) # <<>>
  /\ DOMAIN Entries # {}

====
